---- MODULE Spec2Model ----
(***************************************************************************)
(* Run coordination of the BrainDrive Evaluator: EvaluationService         *)
(* (runEvaluation, pause, resume, abort) driving OrchestratorService       *)
(* (runSingleEvaluation and its three phase simulations).                  *)
(*                                                                         *)
(* JavaScript is single threaded: code between two awaits that wait for    *)
(* the network or a timer runs without interruption.  Every action below   *)
(* is therefore one macrotask: the arrival of a model response, the expiry *)
(* of a timer or a command of the user, followed by all the synchronous    *)
(* code (and the awaits on already resolved promises, such as the storage  *)
(* service's) up to the next such await.  batch[b].pc names the await a    *)
(* runEvaluation invocation is suspended at.                               *)
(***************************************************************************)
EXTENDS Integers, Sequences, FiniteSets, TLC

\* ---------------------------------------------------------------- bounds
\* candidate models selected for a batch
NumModels == 2
\* config.scenariosPerModel
ScenariosPerModel == 1
\* scenarios handed to runEvaluation
NumScenarios == 2
\* invocations of runEvaluation that may be in progress together
MaxBatches == 2
\* abort() calls in a behaviour
MaxAborts == 1
\* failing gateway calls in a behaviour
MaxFaults == 1
\* steps explored of an invocation begun while an earlier one is in progress
MaxOverlapSteps == 1
\* times the OpenAI key is saved or cleared in a behaviour
MaxKeyChanges == 1
\* events arriving while a start handler awaits its token refresh
MaxRefreshWait == 0

\* runs in a list handed to buildLeaderboard on its own
MaxBoardRuns == 4
\* candidate models in such a list
NumBoardModels == 3
\* lapses of time between two reads of the stored snapshot
MaxElapses == 3

\* model calls of one run whose token usage is followed
MaxCalls == 3

\* turns of the synthetic user in one dialogue
MaxTurns == 2

\* largest scenariosPerModel, and most scenarios, runEvaluation is called with
MaxScenarios == 3

\* ------------------------------------------------------ program constants
\* staleness window of the stored snapshot, in milliseconds
RESULTS_TTL_MS == 30 * 60 * 1000
\* discovery exchanges (imported from the WhyFinder plugin)
WHY_FINDER_TOTAL_EXCHANGES == 12
\* answers that fill a bucket (imported from the WhyFinder plugin)
MIN_ANSWERS_PER_PHASE == 3
\* exchange cap of one bucket
MaxPhaseExchanges == 10
\* decision-helper exchanges
DecisionExchanges == 3
\* phase1_love, phase2_good_at, phase3_world, phase4_paid
NumBuckets == 4

VARIABLES
  isRunning,        \* EvaluationService.isRunning
  isPaused,         \* EvaluationService.isPaused
  abortRequested,   \* EvaluationService.abortRequested
  abortController,  \* OrchestratorService.abortController
  hasKey,           \* ModelService.openaiApiKey is set (hasOpenAIApiKey)
  snapshot,         \* sessionStorage[INCREMENTAL_RESULTS_KEY]
  uiRunning,        \* BrainDriveEvaluator state.isRunning
  coach,            \* what the candidate model answers to the extraction passes
  result,           \* what runEvaluation last returned to handleStartEvaluation
  batch,            \* the invocations of runEvaluation, with their locals
  aborts,           \* number of abort() calls so far
  faults,           \* number of failed gateway calls so far
  keyChanges,       \* number of times the key was saved or cleared so far
  waited,           \* events since a start handler began its token refresh
  now,              \* Date.now(), in milliseconds since the first event
  pure              \* argument and result of the pure function under study

vars == <<isRunning, isPaused, abortRequested, abortController, hasKey,
          snapshot, uiRunning, coach, result, batch, aborts, faults,
          keyChanges, waited, now, pure>>

Batches == 1..MaxBatches

Min(a, b) == IF a < b THEN a ELSE b

\* ------------------------------------------------------------------ data
\* what is kept of a message's content: whether it begins with the
\* completion marker the exchange-12 prompt asks for, and whether its last
\* character is a question mark
Text(marker, question) == [marker |-> marker, question |-> question]

PlainText == Text(FALSE, FALSE)

Texts == {Text(m, q) : m \in BOOLEAN, q \in BOOLEAN}

Msg(role, phase, ex) ==
  [role |-> role, phase |-> phase, ex |-> ex, text |-> PlainText]

\* a DiscoveryProfile: the lengths of whatYouLove and whatYouAreGoodAt, and
\* the numbers of distinct items in them
NullProfile ==
  [present |-> FALSE, love |-> 0, goodAt |-> 0, loveDistinct |-> 0,
   goodAtDistinct |-> 0]

NullIkigai == [present |-> FALSE, bullets |-> <<0, 0, 0, 0>>, overlaps |-> FALSE]

NoController == [present |-> FALSE, owner |-> 0, aborted |-> FALSE]

NoSnapshot ==
  [status |-> "none", runs |-> <<>>, leaderboard |-> <<>>, timestamp |-> 0]

NoResult ==
  [returned |-> FALSE, runs |-> <<>>, gen |-> 0, aborted |-> FALSE,
   leaderboard |-> <<>>, error |-> ""]

MetricKeys ==
  <<"clarity", "structuralCorrectness", "consistency", "coverage",
    "hallucination", "decisionExpertise", "safety">>

\* getEmptyMetrics
EmptyMetrics == [k \in {MetricKeys[i] : i \in 1..Len(MetricKeys)} |-> [score |-> 0]]

NoRun ==
  [model |-> 0, scenario |-> 0, status |-> "none", transcript |-> <<>>,
   whyProfile |-> NullProfile, ikigaiProfile |-> NullIkigai,
   decisionHelperOutput |-> <<>>, judged |-> FALSE, overall |-> 0,
   metrics |-> EmptyMetrics, error |-> "",
   abortDuring |-> FALSE, calls |-> 0, pushed |-> 0,
   dialogFail |-> FALSE, passFail |-> FALSE, emptyAt |-> 0,
   passes |-> <<>>]

NewRun(m, sc) == [NoRun EXCEPT !.model = m, !.scenario = sc, !.status = "running"]

IdleBatch(b) ==
  [id |-> b, gen |-> 0, steps |-> 0, abortCalled |-> FALSE, pc |-> "idle", m |-> 1, runIdx |-> 0, allRuns |-> <<>>,
   run |-> NoRun, phase |-> "none", exchange |-> 0, transcript |-> <<>>,
   bucket |-> 0, counts |-> <<0, 0, 0, 0>>, phaseExchanges |-> 0,
   storage |-> <<-1, -1, -1, -1>>, ikigai |-> NullIkigai, events |-> 0]

\* awaits inside runSingleEvaluation
RunPcs == {"delay", "synthCall", "candCall", "extractCall", "summarizeCall", "overlapCall"}

\* awaits on a model-gateway call
CallPcs == {"synthCall", "candCall", "extractCall", "summarizeCall", "overlapCall", "judgeCall"}

\* the introduction lasts one exchange longer
SubPhase_LateIntro(exchange) ==
  IF exchange <= 4 THEN "intro"
  ELSE IF exchange <= 6 THEN "energy_map"
  ELSE IF exchange <= 9 THEN "stories"
  ELSE "your_why"

\* currentPhase of simulateWhyFinder
SubPhase(exchange) ==
  IF exchange <= 3 THEN "intro"
  ELSE IF exchange <= 6 THEN "energy_map"
  ELSE IF exchange <= 9 THEN "stories"
  ELSE "your_why"

PhaseName(i) ==
  CASE i = 1 -> "phase1_love"
    [] i = 2 -> "phase2_good_at"
    [] i = 3 -> "phase3_world"
    [] OTHER -> "phase4_paid"

\* selectScenarios: the first min(scenariosPerModel, scenarios.length)
selectScenarios(scenarios, scenariosPerModel) == Min(scenariosPerModel, scenarios)

\* selectedScenarios.length in the batches of the model
SelectedCount == selectScenarios(NumScenarios, ScenariosPerModel)

\* ------------------------------------------------------- the judge's report
\* Scores are counted in tenths of a point, weights in hundredths, overall
\* scores in thousandths of a point.
\* hallucination and safety have each other's weight
METRIC_WEIGHTS_Swapped ==
  [clarity |-> 15, structuralCorrectness |-> 10, consistency |-> 15,
   coverage |-> 15, hallucination |-> 10, decisionExpertise |-> 15,
   safety |-> 20]

METRIC_WEIGHTS ==
  [clarity |-> 15, structuralCorrectness |-> 10, consistency |-> 15,
   coverage |-> 15, hallucination |-> 20, decisionExpertise |-> 15,
   safety |-> 10]

\* the two JudgeService sources of the repository
Builds == {"judgeService.ts", "part_006"}

\* the score strings a judge answer is explored with
ScoreStrings == {"8.5", "15", "-3", "8/10", "Score: 7", "YOUR_SCORE", ""}

\* the numbers a judge answer is explored with (tenths of a point)
ScoreNumbers == {-20, 0, 75, 100, 120}

NaN == [nan |-> TRUE, v |-> 0]

Num(v) == [nan |-> FALSE, v |-> v]

\* parseFloat: the longest numeric prefix, NaN if there is none
parseFloat(str) ==
  CASE str = "8.5" -> Num(85)
    [] str = "15" -> Num(150)
    [] str = "-3" -> Num(-30)
    [] str = "8/10" -> Num(80)
    [] str = "810" -> Num(8100)
    [] str = "7" -> Num(70)
    [] OTHER -> NaN

\* str.replace(/[^\d.-]/g, '')
Cleaned(str) ==
  CASE str = "8/10" -> "810"
    [] str = "Score: 7" -> "7"
    [] str = "YOUR_SCORE" -> ""
    [] OTHER -> str

\* the values a metric field of the parsed answer can have: absent, a bare
\* number, or an object whose score is a number, a string or absent
Missing == [kind |-> "missing", num |-> 0, str |-> ""]

Bare(n) == [kind |-> "number", num |-> n, str |-> ""]

ObjNum(n) == [kind |-> "objectNumber", num |-> n, str |-> ""]

ObjStr(str) == [kind |-> "objectString", num |-> 0, str |-> str]

ObjNoScore == [kind |-> "objectNoScore", num |-> 0, str |-> ""]

MetricValues ==
  {Missing, ObjNoScore} \cup {Bare(n) : n \in ScoreNumbers}
  \cup {ObjNum(n) : n \in ScoreNumbers} \cup {ObjStr(str) : str \in ScoreStrings}

Max(a, b) == IF a > b THEN a ELSE b

\* Math.max(0, Math.min(10, score))
Clamp(score) == Max(0, Min(100, score))

\* data.score, read as in both sources; 5 replaces a string without number
ObjectScore(data, cleans) ==
  CASE data.kind = "objectNumber" -> data.num
    [] data.kind = "objectString" ->
         LET parsed == parseFloat(IF cleans THEN Cleaned(data.str) ELSE data.str)
         IN IF parsed.nan THEN 50 ELSE parsed.v
    [] OTHER -> 0

\* JudgeService.parseMetricScore of services/judgeService.ts
parseMetricScore(data) ==
  IF data.kind = "missing" \/ (data.kind = "number" /\ data.num = 0)
  THEN [score |-> 0]
  ELSE IF data.kind = "number" THEN [score |-> data.num]
  ELSE [score |-> Clamp(ObjectScore(data, FALSE))]

\* JudgeService.parseMetricScore of part_006
parseMetricScoreRobust(data) ==
  IF data.kind = "missing" \/ (data.kind = "number" /\ data.num = 0)
  THEN [score |-> 0]
  ELSE IF data.kind = "number" THEN [score |-> Clamp(data.num)]
  ELSE [score |-> Clamp(ObjectScore(data, TRUE))]

RECURSIVE WeightedTotal(_, _)
\* the loop of calculateOverallScore over the first n entries of
\* METRIC_WEIGHTS: <<total, weightSum>>
WeightedTotal(metrics, n) ==
  IF n = 0 THEN <<0, 0>>
  ELSE LET acc == WeightedTotal(metrics, n - 1)
           key == MetricKeys[n]
       IN <<acc[1] + metrics[key].score * METRIC_WEIGHTS[key],
            acc[2] + METRIC_WEIGHTS[key]>>

\* total / weightSum, in thousandths of a point
calculateOverallScore(metrics) ==
  LET acc == WeightedTotal(metrics, Len(MetricKeys))
  IN IF acc[2] > 0 THEN (100 * acc[1]) \div acc[2] ELSE 0

\* an object whose score is neither a number nor a string: null, a
\* boolean, an object
ObjOther(kind) == [kind |-> kind, num |-> 0, str |-> ""]

\* the shapes of the judge model's reply: the request fails, the text is
\* empty, it holds no {...} block, the block is valid JSON, it has a
\* trailing comma, it has a key without value, it has an unquoted key
ReplyShapes ==
  {"requestFails", "emptyText", "noObject", "json", "trailingComma",
   "emptyValue", "unquotedKey"}

\* parsed.generalComments: an array of comments, or something else
NoComments == [isArray |-> FALSE, items |-> <<>>]

Reply(shape, parsed, comments) ==
  [shape |-> shape, parsed |-> parsed, comments |-> comments]

\* the replace chain of extractValidJson: both sources drop trailing
\* commas, part_006 also writes null for an empty value
Fixed(build, shape) ==
  CASE shape = "trailingComma" -> "json"
    [] shape = "emptyValue" /\ build = "part_006" -> "json"
    [] OTHER -> shape

\* the second JSON.parse is not guarded
extractValidJson_Rethrows(build, reply) ==
  IF reply.shape \in {"emptyText", "noObject"}
  THEN [threw |-> FALSE, ok |-> FALSE]
  ELSE IF reply.shape = "json" \/ Fixed(build, reply.shape) = "json"
       THEN [threw |-> FALSE, ok |-> TRUE]
       ELSE [threw |-> TRUE, ok |-> FALSE]

\* extractValidJson: null (ok is FALSE), or the parsed object
\* (reply.parsed); JSON.parse accepts the shape "json" only
extractValidJson(build, reply) ==
  IF reply.shape \in {"emptyText", "noObject"}
  THEN [threw |-> FALSE, ok |-> FALSE]
  ELSE IF reply.shape = "json" \/ Fixed(build, reply.shape) = "json"
       THEN [threw |-> FALSE, ok |-> TRUE]
       ELSE [threw |-> FALSE, ok |-> FALSE]

\* the exchange number judgeRun writes before message i of the transcript
\* text: Math.ceil(exchangeNum / 2), exchangeNum counting the user and
\* assistant messages up to and including message i
ExchangeLabel(transcript, i) ==
  LET exchangeNum ==
        Cardinality({j \in 1..i : transcript[j].role \in {"user", "assistant"}})
  IN (exchangeNum + 1) \div 2

BiasWarning == "WARNING: Evaluation scores may have anchoring bias - review carefully."

ParseFailure == "Judge response could not be parsed"

JudgingError == "Judging error"

\* the report judgeRun starts from
EmptyReport ==
  [metrics |-> EmptyMetrics, overallScore |-> 0, parsed |-> FALSE,
   generalComments |-> <<>>, raised |-> FALSE]

\* judgeRun from the judge's reply on
JudgeReport(build, reply) ==
  LET \* the catch of judgeRun
      caught == [EmptyReport EXCEPT !.generalComments = <<JudgingError>>]
  IN
  IF reply.shape = "requestFails" THEN caught
  ELSE LET json == extractValidJson(build, reply)
           metrics == [k \in DOMAIN reply.parsed |->
                         IF build = "part_006"
                         THEN parseMetricScoreRobust(reply.parsed[k])
                         ELSE parseMetricScore(reply.parsed[k])]
           uniqueScores == {metrics[k].score : k \in DOMAIN metrics}
           warned == IF build = "part_006" /\ Cardinality(uniqueScores) < 3
                     THEN <<BiasWarning>> ELSE <<>>
           \* report.generalComments = Array.isArray(...) ? ... : []
           comments == IF reply.comments.isArray THEN reply.comments.items
                       ELSE <<>>
       IN IF json.threw THEN caught
          ELSE IF json.ok
          THEN [metrics |-> metrics,
                overallScore |-> calculateOverallScore(metrics),
                parsed |-> TRUE, generalComments |-> comments,
                raised |-> FALSE]
          ELSE [EmptyReport EXCEPT !.generalComments = <<ParseFailure>>]

\* the parsed answers explored: every field has the base value but two
JudgeAnswers ==
  {[k \in DOMAIN EmptyMetrics |->
      IF k = k1 THEN v1 ELSE IF k = k2 THEN v2 ELSE base] :
     k1 \in DOMAIN EmptyMetrics, k2 \in DOMAIN EmptyMetrics,
     v1 \in MetricValues, v2 \in MetricValues, base \in {Missing, ObjNum(75)}}

\* the judge's answer about a run of candidate model m in the batches
\* explored: every metric an object with a numeric score, better for the
\* later model
JudgeAnswer(m) == [k \in DOMAIN EmptyMetrics |-> ObjNum(50 + 10 * m)]

\* ---------------------------------------------------------- the leaderboard
\* An entry keeps the sum of the overall scores of its judged runs and their
\* number: its overallScore is scoreSum / scored.
RECURSIVE FirstSeen(_, _)
\* the model ids of the first n runs, each once, in order of first appearance
FirstSeen(runs, n) ==
  IF n = 0 THEN <<>>
  ELSE LET seen == FirstSeen(runs, n - 1)
       IN IF \E i \in 1..Len(seen) : seen[i] = runs[n].model
          THEN seen
          ELSE Append(seen, runs[n].model)

RECURSIVE AddModels(_, _, _)
\* models.forEach(m => allModelIds.add(m.id)), for the models 1..n
AddModels(seen, models, n) ==
  IF n = 0 THEN seen
  ELSE LET before == AddModels(seen, models, n - 1)
       IN IF \E i \in 1..Len(before) : before[i] = models[n]
          THEN before
          ELSE Append(before, models[n])

RECURSIVE ScoreSum(_, _)
ScoreSum(scores, n) ==
  IF n = 0 THEN 0 ELSE ScoreSum(scores, n - 1) + scores[n].overall

\* b.overallScore - a.overallScore > 0: b is placed before a
Before(b, a) == b.scoreSum * a.scored > a.scoreSum * b.scored

RECURSIVE InsertSorted(_, _)
\* ties are placed before the entries they tie with
InsertSorted_TiesFirst(sorted, e) ==
  IF sorted = <<>> THEN <<e>>
  ELSE IF Before(sorted[1], e)
  THEN <<sorted[1]>> \o InsertSorted(Tail(sorted), e)
  ELSE <<e>> \o sorted

\* the stable sort of Array.prototype.sort, one element at a time: e goes
\* after every entry that does not compare as coming after it
InsertSorted(sorted, e) ==
  IF sorted = <<>> THEN <<e>>
  ELSE IF Before(e, sorted[1])
  THEN <<e>> \o sorted
  ELSE <<sorted[1]>> \o InsertSorted(Tail(sorted), e)

RECURSIVE SortEntries(_, _)
SortEntries(entries, n) ==
  IF n = 0 THEN <<>>
  ELSE InsertSorted(SortEntries(entries, n - 1), entries[n])

RECURSIVE SumSeq(_)
\* values.reduce((a, b) => a + b, 0)
SumSeq(values) ==
  IF values = <<>> THEN 0 ELSE values[1] + SumSeq(Tail(values))

\* EvaluationService.avgMetricFromMetrics: the mean sum / n of the scores
\* above 0, or 0 if there is none
avgMetricFromMetrics(scores, metricKey) ==
  LET values == SelectSeq([i \in 1..Len(scores) |-> scores[i].metrics[metricKey].score],
                          LAMBDA v : v > 0)
  IN IF Len(values) = 0 THEN [sum |-> 0, n |-> 1]
     ELSE [sum |-> SumSeq(values), n |-> Len(values)]

RECURSIVE BuildEntries(_, _, _)
\* a model without judged run gets an entry too
BuildEntries_KeepUnscored(runs, ids, n) ==
  IF n = 0 THEN <<>>
  ELSE LET entries == BuildEntries(runs, ids, n - 1)
           modelRuns == SelectSeq(runs, LAMBDA r : r.model = ids[n])
           scores == SelectSeq(modelRuns, LAMBDA r : r.judged)
       IN IF Len(modelRuns) = 0
          THEN entries
          ELSE Append(entries,
                 [rank |-> 0, modelId |-> ids[n],
                  scoreSum |-> ScoreSum(scores, Len(scores)),
                  scored |-> Len(scores), runCount |-> Len(modelRuns),
                  metrics |-> [k \in DOMAIN EmptyMetrics |->
                                 avgMetricFromMetrics(scores, k)]])

\* a report with overallScore 0 is not counted as a judged run
BuildEntries_SkipZero(runs, ids, n) ==
  IF n = 0 THEN <<>>
  ELSE LET entries == BuildEntries(runs, ids, n - 1)
           modelRuns == SelectSeq(runs, LAMBDA r : r.model = ids[n])
           scores == SelectSeq(modelRuns, LAMBDA r : r.judged /\ r.overall > 0)
       IN IF Len(modelRuns) = 0 \/ Len(scores) = 0
          THEN entries
          ELSE Append(entries,
                 [rank |-> 0, modelId |-> ids[n],
                  scoreSum |-> ScoreSum(scores, Len(scores)),
                  scored |-> Len(scores), runCount |-> Len(modelRuns),
                  metrics |-> [k \in DOMAIN EmptyMetrics |->
                                 avgMetricFromMetrics(scores, k)]])

\* the loop over allModelIds, for its first n ids
BuildEntries(runs, ids, n) ==
  IF n = 0 THEN <<>>
  ELSE LET entries == BuildEntries(runs, ids, n - 1)
           modelRuns == SelectSeq(runs, LAMBDA r : r.model = ids[n])
           scores == SelectSeq(modelRuns, LAMBDA r : r.judged)
       IN IF Len(modelRuns) = 0 \/ Len(scores) = 0
          THEN entries
          ELSE Append(entries,
                 [rank |-> 0, modelId |-> ids[n],
                  scoreSum |-> ScoreSum(scores, Len(scores)),
                  scored |-> Len(scores), runCount |-> Len(modelRuns),
                  metrics |-> [k \in DOMAIN EmptyMetrics |->
                                 avgMetricFromMetrics(scores, k)]])

\* only the models of the candidate list are looked at
buildLeaderboard_CandidatesOnly(runs, models) ==
  LET ids == AddModels(<<>>, models, Len(models))
      entries == BuildEntries(runs, ids, Len(ids))
      sorted == SortEntries(entries, Len(entries))
  IN [idx \in 1..Len(sorted) |-> [sorted[idx] EXCEPT !.rank = idx]]

\* EvaluationService.buildLeaderboard
buildLeaderboard(runs, models) ==
  LET ids == AddModels(FirstSeen(runs, Len(runs)), models, Len(models))
      entries == BuildEntries(runs, ids, Len(ids))
      sorted == SortEntries(entries, Len(entries))
  IN [idx \in 1..Len(sorted) |-> [sorted[idx] EXCEPT !.rank = idx]]

\* candidateModels of a batch
CandidateModels == [i \in 1..NumModels |-> i]

\* ------------------------------------------------ the synchronous segments
\* A context s carries the locals of one invocation (s.loc) and the shared
\* fields the synchronous code reads and writes.
Ctx(b) ==
  [loc |-> [batch[b] EXCEPT !.steps = IF batch[b].gen = 2 THEN @ + 1 ELSE @],
   ctrl |-> abortController, snap |-> snapshot,
   running |-> isRunning, ui |-> uiRunning, paused |-> isPaused, key |-> hasKey,
   abortReq |-> abortRequested, res |-> result, now |-> now]

Commit(b, s) ==
  /\ batch' = [batch EXCEPT ![b] = s.loc]
  /\ abortController' = s.ctrl
  /\ snapshot' = s.snap
  /\ isRunning' = s.running
  /\ uiRunning' = s.ui
  /\ isPaused' = s.paused
  /\ abortRequested' = s.abortReq
  /\ result' = s.res

RECURSIVE LoopTop(_), BeginRun(_), RunFailed(_, _), RunReturned(_), AfterRun(_),
          IkigaiLoop(_)

\* runEvaluation after the loops: final snapshot, finally-block, and the
\* caller's continuation (handleStartEvaluation stores the returned runs and
\* sets state.isRunning false); the invocation is over
Finish(s) ==
  LET leaderboard == buildLeaderboard(s.loc.allRuns, CandidateModels)
      failedRuns == SelectSeq(s.loc.allRuns, LAMBDA r : r.status = "failed")
  IN [s EXCEPT
        !.loc = IdleBatch(s.loc.id),
        !.snap = [status |-> "completed", runs |-> s.loc.allRuns,
                  leaderboard |-> leaderboard, timestamp |-> s.now],
        !.running = FALSE,
        !.ui = FALSE,
        !.res = [returned |-> TRUE, runs |-> s.loc.allRuns, gen |-> s.loc.gen,
                 aborted |-> s.abortReq,
                 leaderboard |-> leaderboard,
                 error |-> IF Len(failedRuns) > 0
                              /\ Len(failedRuns) = Len(s.loc.allRuns)
                           THEN failedRuns[1].error
                           ELSE ""]]

\* the pause loop is missing
LoopTop_NoPauseCheck(s) ==
  IF s.loc.m > NumModels THEN Finish(s)
  ELSE IF s.loc.runIdx >= SelectedCount THEN
    IF s.abortReq THEN Finish(s)
    ELSE LoopTop([s EXCEPT !.loc.m = @ + 1, !.loc.runIdx = 0])
  ELSE IF s.abortReq THEN Finish(s)
  ELSE BeginRun(s)

\* the two nested loops of runEvaluation, from the top of the inner loop
LoopTop(s) ==
  IF s.loc.m > NumModels THEN Finish(s)
  ELSE IF s.loc.runIdx >= SelectedCount THEN
    IF s.abortReq THEN Finish(s)
    ELSE LoopTop([s EXCEPT !.loc.m = @ + 1, !.loc.runIdx = 0])
  ELSE IF s.paused /\ ~s.abortReq THEN [s EXCEPT !.loc.pc = "pauseWait"]
  ELSE IF s.abortReq THEN Finish(s)
  ELSE BeginRun(s)

\* generateSyntheticUserResponse up to its await: without a key
\* sendOpenAIRequest raises before anything is sent
SynthStart(s) ==
  IF ~s.key
  THEN RunFailed([s EXCEPT !.loc.run.calls = @ + 1, !.loc.run.dialogFail = TRUE],
                 "Synthetic user (OpenAI) failed")
  ELSE [s EXCEPT !.loc.pc = "synthCall", !.loc.run.calls = @ + 1]

\* a failed call is issued again instead of failing the run
RunFailed_Retry(s, err) == [s EXCEPT !.loc.run.calls = @ + 1]

\* catch block of runSingleEvaluation
RunFailed(s, err) ==
  RunReturned([s EXCEPT !.loc.run.status = "failed", !.loc.run.error = err])

\* runSingleEvaluation up to its first await
BeginRun(s) ==
  LET s1 == [s EXCEPT
               !.ctrl = [present |-> TRUE, owner |-> s.loc.id, aborted |-> FALSE],
               !.loc.events = @ + 1,
               !.loc.run = NewRun(s.loc.m, s.loc.runIdx + 1)]
  IN IF ~s.key THEN RunFailed(s1, "OpenAI API key not configured")
     ELSE SynthStart([s1 EXCEPT
            !.loc.events = @ + 2,
            !.loc.phase = "why_finder",
            !.loc.exchange = 1,
            !.loc.transcript = <<Msg("assistant", "intro", 0)>>,
            !.loc.run.pushed = 1])

\* the status test is dropped: every run with a transcript is judged
RunReturned_JudgeAlways(s) ==
  IF Len(s.loc.run.transcript) > 0
  THEN IF ~s.key THEN AfterRun([s EXCEPT !.loc.run.judged = TRUE,
                                         !.loc.events = @ + 1])
       ELSE [s EXCEPT !.loc.pc = "judgeCall", !.loc.phase = "judging",
                      !.loc.events = @ + 1]
  ELSE AfterRun([s EXCEPT !.loc.events = @ + 1])

\* runEvaluation after runSingleEvaluation returned; without a key judgeRun
\* catches sendOpenAIRequest's error and returns its all-zero report at once
RunReturned(s) ==
  IF s.loc.run.status = "completed" /\ Len(s.loc.run.transcript) > 0
  THEN IF ~s.key THEN AfterRun([s EXCEPT !.loc.run.judged = TRUE,
                                         !.loc.events = @ + 1])
       ELSE [s EXCEPT !.loc.pc = "judgeCall", !.loc.phase = "judging",
                      !.loc.events = @ + 1]
  ELSE AfterRun([s EXCEPT !.loc.events = @ + 1])

\* the incremental snapshot is not written
AfterRun_NoSave(s) ==
  LET runs == Append(s.loc.allRuns, s.loc.run)
  IN LoopTop([s EXCEPT
       !.loc = [IdleBatch(s.loc.id) EXCEPT
                  !.pc = "sync", !.gen = s.loc.gen, !.steps = s.loc.steps,
                  !.abortCalled = s.loc.abortCalled,
                  !.events = s.loc.events,
                  !.m = s.loc.m,
                  !.runIdx = s.loc.runIdx + 1,
                  !.allRuns = runs]])

\* saveRunArtifacts, allRuns.push, saveIncrementalResults, runIdx++
AfterRun(s) ==
  LET runs == Append(s.loc.allRuns, s.loc.run)
  IN LoopTop([s EXCEPT
       !.loc = [IdleBatch(s.loc.id) EXCEPT
                  !.pc = "sync", !.gen = s.loc.gen, !.steps = s.loc.steps,
                  !.abortCalled = s.loc.abortCalled,
                  !.events = s.loc.events,
                  !.m = s.loc.m,
                  !.runIdx = s.loc.runIdx + 1,
                  !.allRuns = runs],
       !.snap = [status |-> "in_progress", runs |-> runs,
                 leaderboard |-> buildLeaderboard(runs, CandidateModels),
                 timestamp |-> s.now]])

\* the abort check that ends an exchange
Aborted(s) == s.ctrl.present /\ s.ctrl.aborted

\* the loop is left one answer early
IkigaiWhile_OneShort(s) ==
  IF s.loc.counts[s.loc.bucket] < MIN_ANSWERS_PER_PHASE - 1
     /\ s.loc.phaseExchanges < MaxPhaseExchanges
  THEN SynthStart([s EXCEPT !.loc.phaseExchanges = @ + 1])
  ELSE [s EXCEPT !.loc.pc = "summarizeCall",
                 !.loc.run.passes = Append(@, PhaseName(s.loc.bucket))]

\* the while loop of one bucket, at its condition
IkigaiWhile(s) ==
  IF s.loc.counts[s.loc.bucket] < MIN_ANSWERS_PER_PHASE
     /\ s.loc.phaseExchanges < MaxPhaseExchanges
  THEN SynthStart([s EXCEPT !.loc.phaseExchanges = @ + 1])
  ELSE [s EXCEPT !.loc.pc = "summarizeCall",
                 !.loc.run.passes = Append(@, PhaseName(s.loc.bucket))]

\* buildIkigaiProfile
BuildIkigaiProfile(storage, whyProfile) ==
  [present |-> TRUE,
   bullets |-> <<IF storage[1] >= 0 THEN storage[1] ELSE whyProfile.love,
                 IF storage[2] >= 0 THEN storage[2] ELSE whyProfile.goodAt,
                 IF storage[3] >= 0 THEN storage[3] ELSE 0,
                 IF storage[4] >= 0 THEN storage[4] ELSE 0>>,
   overlaps |-> FALSE]

\* the for loop over the four buckets, at the top of iteration s.loc.bucket
IkigaiLoop(s) ==
  LET i == s.loc.bucket
  IN IF i > NumBuckets
     THEN [s EXCEPT !.loc.pc = "overlapCall",
                    !.loc.run.passes = Append(@, "overlaps"),
                    !.loc.ikigai = BuildIkigaiProfile(s.loc.storage, s.loc.run.whyProfile)]
     ELSE IF i <= 2 /\ s.loc.counts[i] >= MIN_ANSWERS_PER_PHASE
     THEN IkigaiLoop([s EXCEPT !.loc.bucket = i + 1, !.loc.events = @ + 1])
     ELSE IkigaiWhile([s EXCEPT
            !.loc.events = @ + 1,
            !.loc.transcript = Append(@, Msg("assistant", PhaseName(i), 0)),
            !.loc.run.pushed = @ + 1,
            !.loc.phaseExchanges = 0])

\* simulateWhyFinder returned; simulateIkigaiBuilder up to its first await
EnterIkigai(s, profile) ==
  LET love == IF profile.present /\ profile.love >= MIN_ANSWERS_PER_PHASE
              THEN profile.love ELSE 0
      good == IF profile.present /\ profile.goodAt >= MIN_ANSWERS_PER_PHASE
              THEN profile.goodAt ELSE 0
  IN IkigaiLoop([s EXCEPT
       !.loc.run.transcript = s.loc.transcript,
       !.loc.run.whyProfile = profile,
       !.loc.phase = "ikigai",
       !.loc.events = @ + 1,
       !.loc.exchange = 0,
       !.loc.bucket = 1,
       !.loc.counts = <<love, good, 0, 0>>,
       !.loc.storage = <<IF love > 0 THEN love ELSE -1,
                         IF good > 0 THEN good ELSE -1, -1, -1>>])

\* simulateIkigaiBuilder returned; simulateDecisionHelper up to its first await
EnterDecision(s, overlaps) ==
  SynthStart([s EXCEPT
    !.loc.run.transcript = s.loc.transcript,
    !.loc.run.ikigaiProfile = [s.loc.ikigai EXCEPT !.overlaps = overlaps],
    !.loc.phase = "decision_helper",
    !.loc.events = @ + 1,
    !.loc.exchange = 0,
    !.loc.transcript = <<Msg("assistant", "decision_helper", 0)>>,
    !.loc.run.pushed = @ + 1])

\* simulateDecisionHelper returned; the rest of the try block
RunCompleted(s) ==
  RunReturned([s EXCEPT
    !.loc.run.decisionHelperOutput = s.loc.transcript,
    !.loc.run.transcript = s.loc.run.transcript \o s.loc.transcript,
    !.loc.run.status = "completed"])

\* answerCounts is not incremented
AfterSynth_NoCount(s) ==
  LET l == s.loc
      ph == IF l.phase = "why_finder" THEN SubPhase(l.exchange)
            ELSE IF l.phase = "ikigai" THEN PhaseName(l.bucket)
            ELSE "decision_helper"
      ex == IF l.phase = "why_finder" THEN l.exchange ELSE 0
  IN [s EXCEPT !.loc.transcript = Append(@, Msg("user", ph, ex)),
               !.loc.pc = "candCall",
               !.loc.run.pushed = @ + 1,
               !.loc.run.calls = @ + 1]

\* a synthetic-user turn arrived
AfterSynth(s) ==
  LET l == s.loc
      ph == IF l.phase = "why_finder" THEN SubPhase(l.exchange)
            ELSE IF l.phase = "ikigai" THEN PhaseName(l.bucket)
            ELSE "decision_helper"
      ex == IF l.phase = "why_finder" THEN l.exchange ELSE 0
      s1 == [s EXCEPT !.loc.transcript = Append(@, Msg("user", ph, ex)),
                      !.loc.pc = "candCall",
                      !.loc.run.pushed = @ + 1,
                      !.loc.run.calls = @ + 1]
  IN IF l.phase = "ikigai"
     THEN [s1 EXCEPT !.loc.counts[l.bucket] = @ + 1]
     ELSE s1

\* a candidate turn arrived
AfterCand(s) ==
  LET l == s.loc
      ph == IF l.phase = "why_finder" THEN SubPhase(l.exchange)
            ELSE IF l.phase = "ikigai" THEN PhaseName(l.bucket)
            ELSE "decision_helper"
      ex == IF l.phase = "why_finder" THEN l.exchange ELSE 0
      forced == l.phase = "why_finder" /\ l.exchange >= WHY_FINDER_TOTAL_EXCHANGES
      coachResponse == [Msg("assistant", ph, ex) EXCEPT
                          !.text = IF forced THEN coach.final ELSE @]
      s1 == [s EXCEPT !.loc.transcript = Append(@, coachResponse),
                      !.loc.run.pushed = @ + 1]
  IN IF Aborted(s1) THEN RunFailed(s1, "Evaluation aborted")
     ELSE IF l.phase = "why_finder" THEN
       IF l.exchange < WHY_FINDER_TOTAL_EXCHANGES
       THEN [s1 EXCEPT !.loc.exchange = @ + 1, !.loc.pc = "delay"]
       ELSE [s1 EXCEPT !.loc.pc = "extractCall"]
     ELSE IF l.phase = "ikigai" THEN IkigaiWhile(s1)
     ELSE IF l.exchange + 1 < DecisionExchanges
       THEN SynthStart([s1 EXCEPT !.loc.exchange = @ + 1])
       ELSE RunCompleted(s1)

\* the candidate models the coordination is explored with: one whose pass
\* outputs never parse and one whose outputs parse and fill both buckets;
\* both answer the exchange-12 prompt as it asks and never with empty text
\* (final: the text answered to the exchange-12 prompt; emptyAt: the
\* discovery exchange answered with empty text, 0 for none)
Coaches ==
  {[extract |-> NullProfile, summary |-> 0, overlap |-> FALSE,
    final |-> Text(TRUE, FALSE), emptyAt |-> 0],
   [extract |-> [present |-> TRUE, love |-> MIN_ANSWERS_PER_PHASE,
                 goodAt |-> 0, loveDistinct |-> MIN_ANSWERS_PER_PHASE,
                 goodAtDistinct |-> 0],
    summary |-> MIN_ANSWERS_PER_PHASE, overlap |-> TRUE,
    final |-> Text(TRUE, FALSE), emptyAt |-> 0]}

\* the discovery exchanges at which a candidate model may answer with empty
\* text: none, one in the middle, the last
EmptyAts == {0, 5, WHY_FINDER_TOTAL_EXCHANGES}

\* the candidate models the dialogue is explored with: any text in answer
\* to the exchange-12 prompt, possibly one empty answer
WhyCoaches ==
  {[c EXCEPT !.final = t, !.emptyAt = e] :
     c \in Coaches, t \in Texts, e \in EmptyAts}

\* ----------------------------------------------------------------- actions
\* the services after construction, nothing stored
Constructed ==
  /\ isRunning = FALSE
  /\ isPaused = FALSE
  /\ abortRequested = FALSE
  /\ abortController = NoController
  /\ uiRunning = FALSE
  /\ result = NoResult
  /\ batch = [b \in Batches |-> IdleBatch(b)]
  /\ aborts = 0
  /\ faults = 0
  /\ keyChanges = 0
  /\ waited = 0
  /\ now = 0

NoPure == [fn |-> "none"]

Init ==
  /\ Constructed
  /\ hasKey \in BOOLEAN
  /\ snapshot = NoSnapshot
  /\ coach \in Coaches
  /\ pure = NoPure

Active(b) == batch[b].pc # "idle"

\* an invocation started while an earlier one was still active (gen 2) is
\* explored for its first MaxOverlapSteps steps
Step(b) == batch[b].gen = 2 => batch[b].steps < MaxOverlapSteps

\* some start handler awaits its token refresh
Refreshing == \E b \in Batches : batch[b].pc = "refresh"

\* at most MaxRefreshWait events arrive while a token refresh is awaited
Tick ==
  IF Refreshing
  THEN waited < MaxRefreshWait /\ waited' = waited + 1
  ELSE waited' = waited

\* runEvaluation is executing (the handler's token refresh is over)
Running(b) == batch[b].pc \notin {"idle", "refresh"}

\* handleStartEvaluation up to its await of the token refresh
StartEvaluation(b) ==
  /\ ~Active(b)
  /\ \A c \in Batches : c < b => Active(c)
  /\ ~uiRunning
  /\ hasKey
  /\ snapshot' = NoSnapshot
  /\ batch' = [batch EXCEPT ![b].pc = "refresh"]
  /\ Tick
  /\ UNCHANGED <<now, pure, isRunning, isPaused, abortRequested, abortController, hasKey,
                 uiRunning, coach, result, aborts, faults, keyChanges>>

\* the token refresh returned: setState, then runEvaluation up to its
\* first await
RefreshDone(b) ==
  /\ batch[b].pc = "refresh"
  /\ Commit(b, LoopTop([Ctx(b) EXCEPT !.running = TRUE, !.paused = FALSE,
                                      !.abortReq = FALSE, !.ui = TRUE,
                                      !.res = NoResult,
                                      !.loc.pc = "sync",
                                      !.loc.gen = IF \E c \in Batches : Running(c)
                                                  THEN 2 ELSE 1]))
  /\ waited' = IF \E c \in Batches \ {b} : batch[c].pc = "refresh"
               THEN waited ELSE 0
  /\ UNCHANGED <<now, pure, hasKey, coach, aborts, faults, keyChanges>>

\* handleSaveApiKey, once the key was validated and stored
SaveApiKey ==
  /\ ~hasKey
  /\ keyChanges < MaxKeyChanges
  /\ keyChanges' = keyChanges + 1
  /\ hasKey' = TRUE
  /\ Tick
  /\ UNCHANGED <<now, pure, isRunning, isPaused, abortRequested, abortController, snapshot,
                 uiRunning, coach, result, batch, aborts, faults>>

\* handleClearApiKey
ClearApiKey ==
  /\ hasKey
  /\ keyChanges < MaxKeyChanges
  /\ keyChanges' = keyChanges + 1
  /\ hasKey' = FALSE
  /\ Tick
  /\ UNCHANGED <<now, pure, isRunning, isPaused, abortRequested, abortController, snapshot,
                 uiRunning, coach, result, batch, aborts, faults>>

Pause ==
  /\ isPaused' = TRUE
  /\ Tick
  /\ UNCHANGED <<now, pure, isRunning, abortRequested, abortController, hasKey, snapshot,
                 uiRunning, coach, result, batch, aborts, faults, keyChanges>>

Resume ==
  /\ isPaused' = FALSE
  /\ Tick
  /\ UNCHANGED <<now, pure, isRunning, abortRequested, abortController, hasKey, snapshot,
                 uiRunning, coach, result, batch, aborts, faults, keyChanges>>

\* handleAbortEvaluation -> EvaluationService.abort -> OrchestratorService.abort
Abort ==
  /\ aborts < MaxAborts
  /\ aborts' = aborts + 1
  /\ abortRequested' = TRUE
  /\ abortController' = IF abortController.present
                        THEN [abortController EXCEPT !.aborted = TRUE]
                        ELSE abortController
  /\ uiRunning' = FALSE
  /\ batch' = [b \in Batches |->
                 IF batch[b].pc \in RunPcs
                 THEN [batch[b] EXCEPT !.run.abortDuring = TRUE, !.abortCalled = TRUE]
                 ELSE IF Running(b)
                 THEN [batch[b] EXCEPT !.abortCalled = TRUE]
                 ELSE batch[b]]
  /\ Tick
  /\ UNCHANGED <<now, pure, isRunning, isPaused, hasKey, snapshot, coach, result, faults,
                 keyChanges>>

\* the 100 ms sleep of the pause loop expired and the loop is left
PauseWake(b) ==
  /\ batch[b].pc = "pauseWait"
  /\ Step(b)
  /\ ~(isPaused /\ ~abortRequested)
  /\ Commit(b, LoopTop(Ctx(b)))
  /\ Tick
  /\ UNCHANGED <<now, pure, hasKey, coach, aborts, faults, keyChanges>>

\* the 500 ms delay between two discovery exchanges expired
DelayDone(b) ==
  /\ batch[b].pc = "delay"
  /\ Step(b)
  /\ Commit(b, SynthStart([Ctx(b) EXCEPT !.loc.events = @ + 1]))
  /\ Tick
  /\ UNCHANGED <<now, pure, hasKey, coach, aborts, faults, keyChanges>>

Fault == /\ faults < MaxFaults
         /\ faults' = faults + 1

SynthReturn(b) ==
  /\ batch[b].pc = "synthCall"
  /\ Step(b)
  /\ \/ /\ Commit(b, AfterSynth(Ctx(b)))
        /\ UNCHANGED faults
     \/ /\ Fault
        /\ Commit(b, RunFailed([Ctx(b) EXCEPT !.loc.run.dialogFail = TRUE],
                               "Synthetic user (OpenAI) failed"))
  /\ Tick
  /\ UNCHANGED <<now, pure, hasKey, coach, aborts, keyChanges>>

\* the candidate model answers the exchange in progress with empty text
EmptyReply(b) ==
  /\ batch[b].phase = "why_finder"
  /\ batch[b].exchange = coach.emptyAt

CandReturn(b) ==
  /\ batch[b].pc = "candCall"
  /\ Step(b)
  /\ \/ /\ ~EmptyReply(b)
        /\ Commit(b, AfterCand(Ctx(b)))
        /\ UNCHANGED faults
     \/ /\ Fault
        /\ Commit(b, RunFailed([Ctx(b) EXCEPT !.loc.run.dialogFail = TRUE],
                               "Failed to call candidate"))
  /\ Tick
  /\ UNCHANGED <<now, pure, hasKey, coach, aborts, keyChanges>>

\* the candidate's answer arrived with empty text: sendCandidateModelRequest
\* raises, and the exchange's own test for an empty answer is never reached
CandEmpty(b) ==
  /\ batch[b].pc = "candCall"
  /\ Step(b)
  /\ EmptyReply(b)
  /\ Commit(b, RunFailed([Ctx(b) EXCEPT !.loc.run.dialogFail = TRUE,
                                        !.loc.run.emptyAt = batch[b].exchange],
                         "Candidate model returned empty response"))
  /\ Tick
  /\ UNCHANGED <<now, pure, hasKey, coach, aborts, faults, keyChanges>>

\* the error of a failed extraction call is not caught
ExtractReturn_Raises(b) ==
  /\ batch[b].pc = "extractCall"
  /\ Step(b)
  /\ \/ /\ Commit(b, EnterIkigai(Ctx(b), coach.extract))
        /\ UNCHANGED faults
     \/ /\ Fault
        /\ Commit(b, RunFailed([Ctx(b) EXCEPT !.loc.run.passFail = TRUE],
                               "Failed to call candidate"))
  /\ Tick
  /\ UNCHANGED <<now, pure, hasKey, coach, aborts, keyChanges>>

\* extractWhyProfile: a failed call and unparsable output both give null
ExtractReturn(b) ==
  /\ batch[b].pc = "extractCall"
  /\ Step(b)
  /\ \/ /\ Commit(b, EnterIkigai(Ctx(b), coach.extract))
        /\ UNCHANGED faults
     \/ /\ Fault
        /\ Commit(b, EnterIkigai([Ctx(b) EXCEPT !.loc.run.passFail = TRUE], NullProfile))
  /\ Tick
  /\ UNCHANGED <<now, pure, hasKey, coach, aborts, keyChanges>>

\* summarizePhase: a failed call and unparsable output both give no bullets
AfterSummarize(s, n) ==
  IkigaiLoop([s EXCEPT !.loc.storage[s.loc.bucket] = n,
                       !.loc.bucket = @ + 1])

SummarizeReturn(b) ==
  /\ batch[b].pc = "summarizeCall"
  /\ Step(b)
  /\ \/ /\ Commit(b, AfterSummarize(Ctx(b), coach.summary))
        /\ UNCHANGED faults
     \/ /\ Fault
        /\ Commit(b, AfterSummarize([Ctx(b) EXCEPT !.loc.run.passFail = TRUE], 0))
  /\ Tick
  /\ UNCHANGED <<now, pure, hasKey, coach, aborts, keyChanges>>

OverlapReturn(b) ==
  /\ batch[b].pc = "overlapCall"
  /\ Step(b)
  /\ \/ /\ Commit(b, EnterDecision(Ctx(b), coach.overlap))
        /\ UNCHANGED faults
     \/ /\ Fault
        /\ Commit(b, EnterDecision([Ctx(b) EXCEPT !.loc.run.passFail = TRUE], FALSE))
  /\ Tick
  /\ UNCHANGED <<now, pure, hasKey, coach, aborts, keyChanges>>

\* judgeRun never raises: a failed call gives an all-zero report
JudgeReturn(b) ==
  /\ batch[b].pc = "judgeCall"
  /\ Step(b)
  /\ \/ /\ UNCHANGED faults
        /\ LET judgeReport ==
                 JudgeReport("part_006",
                             Reply("json", JudgeAnswer(batch[b].run.model),
                                   NoComments))
           IN Commit(b, AfterRun([Ctx(b) EXCEPT
                      !.loc.run.judged = TRUE,
                      !.loc.run.overall = judgeReport.overallScore,
                      !.loc.run.metrics = judgeReport.metrics]))
     \/ /\ Fault
        /\ Commit(b, AfterRun([Ctx(b) EXCEPT !.loc.run.judged = TRUE]))
  /\ Tick
  /\ UNCHANGED <<now, pure, hasKey, coach, aborts, keyChanges>>

Next ==
  \/ \E b \in Batches : StartEvaluation(b)
  \/ \E b \in Batches : RefreshDone(b)
  \/ SaveApiKey
  \/ ClearApiKey
  \/ Pause
  \/ Resume
  \/ Abort
  \/ \E b \in Batches : PauseWake(b)
  \/ \E b \in Batches : DelayDone(b)
  \/ \E b \in Batches : SynthReturn(b)
  \/ \E b \in Batches : CandReturn(b)
  \/ \E b \in Batches : ExtractReturn(b)
  \/ \E b \in Batches : SummarizeReturn(b)
  \/ \E b \in Batches : OverlapReturn(b)
  \/ \E b \in Batches : JudgeReturn(b)

Spec == Init /\ [][Next]_vars

\* the behaviours in which runEvaluation is only called while no earlier
\* invocation is active
StartFresh(b) ==
  /\ \A c \in Batches : ~Active(c)
  /\ StartEvaluation(b)

NextOne ==
  \/ \E b \in Batches : StartFresh(b)
  \/ \E b \in Batches : RefreshDone(b)
  \/ SaveApiKey
  \/ ClearApiKey
  \/ Pause
  \/ Resume
  \/ Abort
  \/ \E b \in Batches : PauseWake(b)
  \/ \E b \in Batches : DelayDone(b)
  \/ \E b \in Batches : SynthReturn(b)
  \/ \E b \in Batches : CandReturn(b)
  \/ \E b \in Batches : ExtractReturn(b)
  \/ \E b \in Batches : SummarizeReturn(b)
  \/ \E b \in Batches : OverlapReturn(b)
  \/ \E b \in Batches : JudgeReturn(b)

SpecOne == Init /\ [][NextOne]_vars

\* handleClearApiKey while a start handler awaits its token refresh
ClearApiKeyRefreshing ==
  /\ Refreshing
  /\ hasKey
  /\ keyChanges < MaxKeyChanges
  /\ keyChanges' = keyChanges + 1
  /\ hasKey' = FALSE
  /\ UNCHANGED <<now, pure, isRunning, isPaused, abortRequested, abortController, snapshot,
                 uiRunning, coach, result, batch, aborts, faults, waited>>

\* one invocation at a time; the key can be cleared between the start
\* handler's key test and its call of runEvaluation
NextKey == NextOne \/ ClearApiKeyRefreshing

SpecKey == Init /\ [][NextKey]_vars

\* one batch after another, with a key, against every candidate of WhyCoaches
InitWhy ==
  /\ Constructed
  /\ hasKey = TRUE
  /\ snapshot = NoSnapshot
  /\ coach \in WhyCoaches
  /\ pure = NoPure

NextWhy ==
  \/ \E b \in Batches : StartFresh(b)
  \/ \E b \in Batches : RefreshDone(b)
  \/ \E b \in Batches : DelayDone(b)
  \/ \E b \in Batches : SynthReturn(b)
  \/ \E b \in Batches : CandReturn(b)
  \/ \E b \in Batches : CandEmpty(b)
  \/ \E b \in Batches : ExtractReturn(b)
  \/ \E b \in Batches : SummarizeReturn(b)
  \/ \E b \in Batches : OverlapReturn(b)
  \/ \E b \in Batches : JudgeReturn(b)

SpecWhy == InitWhy /\ [][NextWhy]_vars

\* candidate models that differ in the profile their extraction pass gives;
\* an item list is <<length, distinct items>>: empty, two items, three
\* different items, one item three times
BucketCoaches ==
  LET lists ==
        {<<0, 0>>, <<MIN_ANSWERS_PER_PHASE - 1, MIN_ANSWERS_PER_PHASE - 1>>,
         <<MIN_ANSWERS_PER_PHASE, MIN_ANSWERS_PER_PHASE>>,
         <<MIN_ANSWERS_PER_PHASE, 1>>}
  IN {c \in Coaches : ~c.extract.present}
     \cup {[c EXCEPT !.extract.love = l[1], !.extract.loveDistinct = l[2],
                     !.extract.goodAt = g[1], !.extract.goodAtDistinct = g[2]] :
             c \in {d \in Coaches : d.extract.present},
             l \in lists, g \in lists}

InitBucket ==
  /\ Constructed
  /\ hasKey = TRUE
  /\ snapshot = NoSnapshot
  /\ coach \in BucketCoaches
  /\ pure = NoPure

NextBucket ==
  \/ \E b \in Batches : StartFresh(b)
  \/ \E b \in Batches : RefreshDone(b)
  \/ \E b \in Batches : DelayDone(b)
  \/ \E b \in Batches : SynthReturn(b)
  \/ \E b \in Batches : CandReturn(b)
  \/ \E b \in Batches : ExtractReturn(b)
  \/ \E b \in Batches : SummarizeReturn(b)
  \/ \E b \in Batches : OverlapReturn(b)
  \/ \E b \in Batches : JudgeReturn(b)

SpecBucket == InitBucket /\ [][NextBucket]_vars

\* ------------------------------------------------- the pure specifications
\* a judge answer has arrived for a completed run
InitJudge ==
  /\ Constructed
  /\ hasKey = TRUE
  /\ snapshot = NoSnapshot
  /\ coach \in Coaches
  /\ pure \in [fn : {"judgeRun"}, build : Builds, parses : BOOLEAN,
               parsed : JudgeAnswers, report : {NoPure}]

runVars == <<isRunning, isPaused, abortRequested, abortController, hasKey,
             snapshot, uiRunning, coach, result, batch, aborts, faults,
             keyChanges, waited, now>>

\* judgeRun builds its report
JudgeRun ==
  /\ pure.fn = "judgeRun"
  /\ pure.report = NoPure
  /\ pure' = [pure EXCEPT !.report = JudgeReport(pure.build,
                 Reply(IF pure.parses THEN "json" ELSE "unquotedKey",
                       pure.parsed, NoComments))]
  /\ UNCHANGED runVars

SpecJudge == InitJudge /\ [][JudgeRun]_vars

\* parsed objects: every field has the base value but two, which take the
\* metric values a reply is explored with
ReplyAnswers ==
  LET values ==
        {Missing, ObjNoScore, ObjOther("objectNull"), ObjOther("objectBoolean"),
         ObjOther("objectObject"), ObjNum(75), ObjNum(100), ObjStr("8.5"),
         ObjStr("YOUR_SCORE")}
  IN {[k \in DOMAIN EmptyMetrics |->
         IF k = k1 THEN v1 ELSE IF k = k2 THEN v2 ELSE ObjNum(50)] :
        k1 \in {"clarity", "safety"}, k2 \in {"coverage", "hallucination"},
        v1 \in values, v2 \in values}

\* every reply that parses at once, and every shape of one reply, each
\* without generalComments array, with an empty one and with one comment
Replies ==
  LET comments ==
        {NoComments, [isArray |-> TRUE, items |-> <<>>],
         [isArray |-> TRUE, items |-> <<"The coach stayed on topic.">>]}
  IN {Reply("json", parsed, c) : parsed \in ReplyAnswers, c \in comments}
     \cup {Reply(shape, JudgeAnswer(1), c) : shape \in ReplyShapes, c \in comments}

InitReply ==
  /\ Constructed
  /\ hasKey = TRUE
  /\ snapshot = NoSnapshot
  /\ coach \in Coaches
  /\ pure \in [fn : {"judgeReply"}, build : Builds, reply : Replies,
               report : {NoPure}]

\* judgeRun receives the judge model's reply and builds its report
JudgeReply ==
  /\ pure.fn = "judgeReply"
  /\ pure.report = NoPure
  /\ pure' = [pure EXCEPT !.report = JudgeReport(pure.build, pure.reply)]
  /\ UNCHANGED runVars

SpecReply == InitReply /\ [][JudgeReply]_vars

\* the phases runSingleEvaluation sets for token tracking, in order
TokenPhases == <<"whyFinder", "ikigai", "decisionHelper">>

\* the usage a model call reports: prompt and completion tokens
Usages == {[input |-> 2, output |-> 1], [input |-> 3, output |-> 0]}

NoRoleUsage == [input |-> 0, output |-> 0]

\* what the tracker holds for one phase
NoPhaseUsage == [candidate |-> NoRoleUsage, synthetic |-> NoRoleUsage]

\* ModelService after resetTokenTracking
ZeroTracking ==
  [totalTokenUsage |-> [candidate |-> NoRoleUsage, synthetic |-> NoRoleUsage,
                        judge |-> NoRoleUsage],
   phaseTokenUsage |-> [i \in 1..Len(TokenPhases) |-> NoPhaseUsage],
   judge |-> NoRoleUsage]

AddUsage(a, b) == [input |-> a.input + b.input, output |-> a.output + b.output]

\* the usage tracking of sendOpenAIRequest (role "synthetic") and of
\* sendCandidateModelRequest (role "candidate"); the phase after the last
\* of TokenPhases is 'judge'
TrackTokens(t, phase, role, usage) ==
  LET total == [t.totalTokenUsage EXCEPT ![role] = AddUsage(@, usage)]
  IN IF phase <= Len(TokenPhases)
     THEN [t EXCEPT !.totalTokenUsage = total,
                    !.phaseTokenUsage[phase][role] = AddUsage(@, usage)]
     ELSE IF role = "synthetic"
     THEN [t EXCEPT !.totalTokenUsage = [total EXCEPT !.judge = AddUsage(@, usage)],
                    !.judge = AddUsage(@, usage)]
     ELSE [t EXCEPT !.totalTokenUsage = total]

\* getTokenUsage().total
TokenTotal(t) ==
  LET inp == t.totalTokenUsage.synthetic.input + t.totalTokenUsage.candidate.input
               + t.totalTokenUsage.judge.input
      out == t.totalTokenUsage.synthetic.output + t.totalTokenUsage.candidate.output
               + t.totalTokenUsage.judge.output
  IN [input |-> inp, output |-> out, total |-> inp + out]

NoUsage == [input |-> 0, output |-> 0, total |-> 0]

\* runSingleEvaluation has not started: the tracker is as the run before
\* left it
InitTokens ==
  /\ Constructed
  /\ hasKey = TRUE
  /\ snapshot = NoSnapshot
  /\ coach \in Coaches
  /\ pure \in [fn : {"tokens"},
               tracking : {ZeroTracking,
                           TrackTokens(ZeroTracking, 1, "candidate",
                                       [input |-> 5, output |-> 1])},
               currentPhase : {0}, status : {"none"}, calls : {<<>>},
               tokenUsage : {NoUsage}, phaseTokenUsage : {<<>>},
               judged : {FALSE}, judgeUsage : {NoRoleUsage}]

\* runSingleEvaluation starts: resetTokenTracking, setCurrentPhase('whyFinder')
RunStarts ==
  /\ pure.fn = "tokens"
  /\ pure.status = "none"
  /\ pure' = [pure EXCEPT !.tracking = ZeroTracking, !.currentPhase = 1,
                          !.status = "running"]
  /\ UNCHANGED runVars

\* a model call of the run returns with its usage
ModelCall ==
  /\ pure.fn = "tokens"
  /\ pure.status = "running"
  /\ Len(pure.calls) < MaxCalls
  /\ \E role \in {"candidate", "synthetic"}, usage \in Usages :
       pure' = [pure EXCEPT
                  !.tracking = TrackTokens(@, pure.currentPhase, role, usage),
                  !.calls = Append(@, usage)]
  /\ UNCHANGED runVars

\* the next phase begins: setCurrentPhase
PhaseStarts ==
  /\ pure.fn = "tokens"
  /\ pure.status = "running"
  /\ pure.currentPhase < Len(TokenPhases)
  /\ pure' = [pure EXCEPT !.currentPhase = @ + 1]
  /\ UNCHANGED runVars

\* the last phase is over: the usage is stored and the run is completed
RunEndsCompleted ==
  /\ pure.fn = "tokens"
  /\ pure.status = "running"
  /\ pure.currentPhase = Len(TokenPhases)
  /\ pure' = [pure EXCEPT !.tokenUsage = TokenTotal(pure.tracking),
                          !.phaseTokenUsage =
                             [phases |-> pure.tracking.phaseTokenUsage,
                              judge |-> pure.tracking.judge,
                              total |-> TokenTotal(pure.tracking)],
                          !.status = "completed"]
  /\ UNCHANGED runVars

\* runEvaluation judges the completed run: setCurrentPhase('judge'), the
\* judge's call through sendOpenAIRequest (a failed call reports no usage),
\* then the judge counters and the total are copied into the run
JudgeTokens ==
  /\ pure.fn = "tokens"
  /\ pure.status = "completed"
  /\ ~pure.judged
  /\ \E usage \in Usages \cup {NoRoleUsage} :
       LET tracking == TrackTokens(pure.tracking, Len(TokenPhases) + 1,
                                   "synthetic", usage)
       IN pure' = [pure EXCEPT
                     !.tracking = tracking,
                     !.currentPhase = Len(TokenPhases) + 1,
                     !.judgeUsage = usage,
                     !.phaseTokenUsage.judge = tracking.judge,
                     !.phaseTokenUsage.total = TokenTotal(tracking),
                     !.judged = TRUE]
  /\ UNCHANGED runVars

\* a step of the run threw: the catch of runSingleEvaluation
RunEndsFailed ==
  /\ pure.fn = "tokens"
  /\ pure.status = "running"
  /\ pure' = [pure EXCEPT !.tokenUsage = NoUsage, !.status = "failed"]
  /\ UNCHANGED runVars

NextTokens ==
  \/ RunStarts
  \/ ModelCall
  \/ PhaseStarts
  \/ RunEndsCompleted
  \/ RunEndsFailed
  \/ JudgeTokens

SpecTokens == InitTokens /\ [][NextTokens]_vars

\* runEvaluation is called with 1..NumModels candidate models, a
\* scenariosPerModel of 1..MaxScenarios and 0..MaxScenarios scenarios
InitProgress ==
  /\ Constructed
  /\ hasKey = TRUE
  /\ snapshot = NoSnapshot
  /\ coach \in Coaches
  /\ pure \in {[fn |-> "progress", models |-> mo, scenariosPerModel |-> spm,
                scenarios |-> sc, totalRuns |-> mo * spm, completedRuns |-> 0,
                m |-> 1, runIdx |-> 0, status |-> "running", aborted |-> FALSE,
                events |-> <<>>] :
                 mo \in 1..NumModels, spm \in 1..MaxScenarios, sc \in 0..MaxScenarios}

\* one iteration of the inner loop: the 'running' event before the run, the
\* one after it (judging, or the run's error), allRuns.push, completedRuns++
ProgressRun ==
  /\ pure.fn = "progress"
  /\ pure.status = "running"
  /\ pure.m <= pure.models
  /\ pure.runIdx < selectScenarios(pure.scenarios, pure.scenariosPerModel)
  /\ LET event == [status |-> "running", totalRuns |-> pure.totalRuns,
                   completedRuns |-> pure.completedRuns]
         last == pure.runIdx + 1
                   >= selectScenarios(pure.scenarios, pure.scenariosPerModel)
     IN pure' = [pure EXCEPT !.events = @ \o <<event, event>>,
                             !.completedRuns = @ + 1,
                             !.runIdx = IF last THEN 0 ELSE @ + 1,
                             !.m = IF last THEN @ + 1 ELSE @]
  /\ UNCHANGED runVars

\* the loops are left, every model done or abort() called: the final
\* 'completed' event
ProgressEnd ==
  /\ pure.fn = "progress"
  /\ pure.status = "running"
  /\ \E aborted \in BOOLEAN :
       /\ \/ aborted
          \/ pure.m > pure.models
          \/ selectScenarios(pure.scenarios, pure.scenariosPerModel) = 0
       /\ pure' = [pure EXCEPT
                     !.status = "completed",
                     !.aborted = aborted,
                     !.events = Append(@, [status |-> "completed",
                                           totalRuns |-> pure.totalRuns,
                                           completedRuns |-> pure.completedRuns])]
  /\ UNCHANGED runVars

SpecProgress == InitProgress /\ [][ProgressRun \/ ProgressEnd]_vars

\* texts are sequences of tokens: a blank, a punctuation mark, a word, or
\* a phrase kept in one piece
Blank == " "

\* response.trim()
RECURSIVE TrimLeft(_)
TrimLeft(text) ==
  IF text # <<>> /\ text[1] = Blank THEN TrimLeft(Tail(text)) ELSE text

RECURSIVE TrimRight(_)
TrimRight(text) ==
  IF text # <<>> /\ text[Len(text)] = Blank
  THEN TrimRight(SubSeq(text, 1, Len(text) - 1)) ELSE text

Trim(text) == TrimRight(TrimLeft(text))

\* only a leading full stop is tested
PartialCopy_PeriodOnly(trimmed) == trimmed[1] = "."

\* responseTrimmed.startsWith('.') || startsWith('?') || startsWith('!')
PartialCopy(trimmed) == trimmed[1] \in {".", "?", "!"}

coachingPhrases ==
  {"YOUR WHY IS", "Does this resonate", "How does this feel", "It sounds like",
   "I hear you", "SUMMARY OF", "PATTERNS I SEE"}

\* toUpperCase, for the phrases and words the texts are made of
ToUpperCase(token) ==
  CASE token \in {"It sounds like", "it sounds like"} -> "IT SOUNDS LIKE"
    [] token \in {"Does this resonate", "does this resonate"} -> "DOES THIS RESONATE"
    [] token = "How does this feel" -> "HOW DOES THIS FEEL"
    [] token = "I hear you" -> "I HEAR YOU"
    [] OTHER -> token

\* toLowerCase, for the words the texts are made of
ToLowerCase(token) ==
  CASE token = "Meaning" -> "meaning"
    [] token = "Purpose" -> "purpose"
    [] OTHER -> token

\* responseTrimmed.toUpperCase().includes(phrase.toUpperCase()) for some phrase
CoachingLanguage(trimmed) ==
  \E i \in 1..Len(trimmed), phrase \in coachingPhrases :
    ToUpperCase(trimmed[i]) = ToUpperCase(phrase)

\* text.toLowerCase().split(/\s+/).slice(0, 30)
FirstWords(text) ==
  LET words == SelectSeq(text, LAMBDA token : token # Blank)
      lower == [i \in 1..Len(words) |-> ToLowerCase(words[i])]
  IN SubSeq(lower, 1, Min(30, Len(lower)))

\* coachWords.filter(w => userWords.includes(w) && w.length > 5).length
Overlap(coachText, trimmed) ==
  LET coachWords == FirstWords(coachText)
      userWords == FirstWords(trimmed)
  IN Cardinality({i \in 1..Len(coachWords) :
                    /\ \E j \in 1..Len(userWords) : userWords[j] = coachWords[i]
                    /\ Len(coachWords[i]) > 5})

OverlapThreshold == 12

PartialCopyLine == <<"That's an interesting question. Let me think...">>

CoachingLine == <<"I appreciate you asking. To answer your question - ">>

MirrorLine == <<"That's something I've been thinking about a lot lately.">>

\* a returned text
Returned(text) == [threw |-> FALSE, text |-> text]

\* generateSyntheticUserResponse from the model's response on; an empty
\* response throws
generateSyntheticUserResponse(conversationHistory, response) ==
  IF response = <<>> \/ Trim(response) = <<>>
  THEN [threw |-> TRUE, text |-> <<>>]
  ELSE IF Len(conversationHistory) > 0
          /\ conversationHistory[Len(conversationHistory)].role = "assistant"
  THEN LET lastCoachMsg == conversationHistory[Len(conversationHistory)]
           responseTrimmed == Trim(response)
       IN IF PartialCopy(responseTrimmed) THEN Returned(PartialCopyLine)
          ELSE IF CoachingLanguage(responseTrimmed) THEN Returned(CoachingLine)
          ELSE IF Overlap(lastCoachMsg.content, responseTrimmed) > OverlapThreshold
          THEN Returned(MirrorLine)
          ELSE Returned(response)
  ELSE Returned(response)

\* the assistant message the history of each of the three dialogues that ask
\* the synthetic user for a turn starts with
Opening(site) ==
  CASE site = "simulateWhyFinder" -> <<"INITIAL_GREETING">>
    [] site = "simulateIkigaiBuilder" -> <<"IKIGAI_PHASE_INTROS">>
    [] OTHER -> <<"DECISION_HELPER_INTRO">>

\* thirteen words longer than five characters, and a short one
LongWords ==
  <<"purpose", "meaning", "helping", "people", "feeling", "energy",
    "moment", "stories", "pattern", "values", "strength", "contribution",
    "impact">>

\* the responses the synthetic-user model is explored with
SyntheticResponses ==
  {<<>>, <<Blank>>,
   <<"I", Blank, "like", Blank, "helping", Blank, "people">>,
   <<".", Blank, "What", Blank, "matters", Blank, "most">>,
   <<Blank, "?", Blank, "I", Blank, "guess">>,
   <<"!">>,
   <<"I", Blank, "guess", ".">>,
   <<"it sounds like", Blank, "you", Blank, "care">>,
   <<"Purpose", Blank, "Meaning">> \o Tail(Tail(LongWords)),
   Tail(LongWords)}

\* the replies the candidate model is explored with
CoachResponses ==
  {<<"Tell", Blank, "me", Blank, "more">>, LongWords, Tail(LongWords)}

\* a message of the dialogue, with the raw model output it came from
SynthMsg(role, content, raw) == [role |-> role, content |-> content, raw |-> raw]

InitSynth ==
  /\ Constructed
  /\ hasKey = TRUE
  /\ snapshot = NoSnapshot
  /\ coach \in Coaches
  /\ \E site \in {"simulateWhyFinder", "simulateIkigaiBuilder",
                   "simulateDecisionHelper"} :
       pure = [fn |-> "synth", site |-> site, failed |-> FALSE,
               conversationHistory |-> <<SynthMsg("assistant", Opening(site), <<>>)>>]

\* the synthetic user's turn: the returned text is pushed to the transcript
\* and to the history (the same messages in this model), or the run fails
SyntheticTurn ==
  /\ pure.fn = "synth"
  /\ ~pure.failed
  /\ Len(pure.conversationHistory) < 2 * MaxTurns
  /\ pure.conversationHistory[Len(pure.conversationHistory)].role = "assistant"
  /\ \E response \in SyntheticResponses :
       LET userResponse ==
             generateSyntheticUserResponse(pure.conversationHistory, response)
       IN pure' = IF userResponse.threw THEN [pure EXCEPT !.failed = TRUE]
                  ELSE [pure EXCEPT !.conversationHistory =
                          Append(@, SynthMsg("user", userResponse.text, response))]
  /\ UNCHANGED runVars

\* the candidate model's reply is pushed
CoachTurn ==
  /\ pure.fn = "synth"
  /\ ~pure.failed
  /\ pure.conversationHistory[Len(pure.conversationHistory)].role = "user"
  /\ \E coachResponse \in CoachResponses :
       pure' = [pure EXCEPT !.conversationHistory =
                  Append(@, SynthMsg("assistant", coachResponse, <<>>))]
  /\ UNCHANGED runVars

NextSynth == SyntheticTurn \/ CoachTurn

SpecSynth == InitSynth /\ [][NextSynth]_vars

\* the runs buildLeaderboard is explored with: an unjudged run has no score
\* the runs handed over: not judged, or judged with every metric 0, every
\* metric 5, every metric 10, or clarity 0 and every other metric 5
BoardRuns ==
  LET reports ==
        {[k \in DOMAIN EmptyMetrics |-> [score |-> v]] : v \in {0, 50, 100}}
        \cup {[k \in DOMAIN EmptyMetrics |->
                 [score |-> IF k = "clarity" THEN 0 ELSE 50]]}
  IN {[model |-> model, judged |-> FALSE, overall |-> 0, metrics |-> EmptyMetrics] :
        model \in 1..NumBoardModels}
     \cup {[model |-> model, judged |-> TRUE,
            overall |-> calculateOverallScore(metrics), metrics |-> metrics] :
             model \in 1..NumBoardModels, metrics \in reports}

\* the candidate lists handed over: every model, or the second one only
BoardModels == {[i \in 1..NumBoardModels |-> i], <<2>>}

BoardRunLists == UNION {[1..n -> BoardRuns] : n \in 0..MaxBoardRuns}

InitBoard ==
  /\ Constructed
  /\ hasKey = TRUE
  /\ snapshot = NoSnapshot
  /\ coach \in Coaches
  /\ pure \in [fn : {"buildLeaderboard"}, runs : BoardRunLists,
               models : BoardModels, built : {FALSE}, leaderboard : {<<>>}]

\* buildLeaderboard is applied to the list
BuildLeaderboard ==
  /\ pure.fn = "buildLeaderboard"
  /\ ~pure.built
  /\ pure' = [pure EXCEPT
                !.built = TRUE,
                !.leaderboard =
                   buildLeaderboard(pure.runs, pure.models)]
  /\ UNCHANGED runVars

SpecBoard == InitBoard /\ [][BuildLeaderboard]_vars

\* what an earlier page of the same tab left in sessionStorage
StoredRuns ==
  {<<>>,
   <<[NewRun(1, 1) EXCEPT !.status = "failed", !.error = "Failed to call candidate",
                          !.dialogFail = TRUE]>>,
   <<[NewRun(1, 1) EXCEPT !.status = "completed", !.judged = TRUE,
                          !.overall = 5000]>>}

StoredSnapshots ==
  {NoSnapshot}
  \cup {[status |-> st, runs |-> rs,
         leaderboard |-> buildLeaderboard(rs, CandidateModels), timestamp |-> 0] :
          st \in {"in_progress", "completed"}, rs \in StoredRuns}

\* the lapses of time explored: a millisecond, the window less one, the window
Delays == {1, RESULTS_TTL_MS - 1, RESULTS_TTL_MS}

NoStored == [present |-> FALSE, runs |-> <<>>, leaderboard |-> <<>>, status |-> ""]

\* an expired snapshot is reported absent but left in storage
getStoredResults_KeepExpired(stored, t) ==
  IF stored.status = "none" THEN [ret |-> NoStored, stored |-> stored]
  ELSE IF t - stored.timestamp < RESULTS_TTL_MS
  THEN [ret |-> [present |-> TRUE, runs |-> stored.runs,
                 leaderboard |-> stored.leaderboard, status |-> stored.status],
        stored |-> stored]
  ELSE [ret |-> NoStored, stored |-> stored]

\* EvaluationService.getStoredResults at time t: what it returns and what it
\* leaves in storage
getStoredResults(stored, t) ==
  IF stored.status = "none" THEN [ret |-> NoStored, stored |-> stored]
  ELSE IF t - stored.timestamp < RESULTS_TTL_MS
  THEN [ret |-> [present |-> TRUE, runs |-> stored.runs,
                 leaderboard |-> stored.leaderboard, status |-> stored.status],
        stored |-> stored]
  ELSE [ret |-> NoStored, stored |-> NoSnapshot]

InitStore ==
  /\ Constructed
  /\ hasKey = TRUE
  /\ snapshot \in StoredSnapshots
  /\ coach \in Coaches
  /\ pure = [fn |-> "getStoredResults", elapses |-> 0, reads |-> 0, got |-> NoStored]

\* time passes
Elapse ==
  /\ pure.fn = "getStoredResults"
  /\ pure.elapses < MaxElapses
  /\ \E d \in Delays : now' = now + d
  /\ pure' = [pure EXCEPT !.elapses = @ + 1]
  /\ UNCHANGED <<isRunning, isPaused, abortRequested, abortController, hasKey,
                 snapshot, uiRunning, coach, result, batch, aborts, faults,
                 keyChanges, waited>>

\* BrainDriveEvaluator.initialize, step 1: the page is loaded, reads the
\* stored snapshot and restores the runs it holds
Initialize ==
  /\ pure.fn = "getStoredResults"
  /\ LET read == getStoredResults(snapshot, now)
     IN /\ snapshot' = read.stored
        /\ pure' = [pure EXCEPT !.reads = 1, !.got = read.ret]
        /\ result' = IF read.ret.present /\ Len(read.ret.runs) > 0
                     THEN [NoResult EXCEPT
                             !.runs = read.ret.runs,
                             !.leaderboard = read.ret.leaderboard,
                             !.error = IF read.ret.status = "completed" THEN ""
                                       ELSE "Restored runs from previous session"]
                     ELSE NoResult
  /\ UNCHANGED <<isRunning, isPaused, abortRequested, abortController, hasKey,
                 uiRunning, coach, batch, aborts, faults, keyChanges, waited, now>>

NextStore ==
  \/ Elapse
  \/ Initialize

SpecStore == InitStore /\ [][NextStore]_vars

\* ------------------------------------------------------------ properties
Range(seq) == {seq[i] : i \in 1..Len(seq)}

\* the runs some invocation has recorded or returned
Recorded ==
  UNION {Range(batch[b].allRuns) : b \in Batches} \cup Range(result.runs)

\* the runs runSingleEvaluation has returned: the recorded ones and those
\* being judged
ReturnedRuns ==
  Recorded \cup {batch[b].run : b \in {c \in Batches : batch[c].pc = "judgeCall"}}

PlannedRuns == NumModels * SelectedCount

\* C1: runSingleEvaluation returns status 'completed' only if the three
\* phases finished without exception and abort() was never requested while
\* the run was executing; otherwise it returns 'failed', never 'running'.
C1_CompletedOnlyWithoutAbort ==
  \A r \in ReturnedRuns :
    /\ r.status \in {"completed", "failed"}
    /\ r.status = "completed" =>
         /\ ~r.abortDuring
         /\ ~r.dialogFail
         /\ r.ikigaiProfile.present
         /\ Len(r.decisionHelperOutput) = 1 + 2 * DecisionExchanges

UserMsgs(t) == Cardinality({i \in 1..Len(t) : t[i].role = "user"})

\* the synthetic-user turns the run in progress has appended
UserTurns(l) ==
  IF l.phase = "decision_helper"
  THEN UserMsgs(l.run.transcript) + UserMsgs(l.transcript)
  ELSE UserMsgs(l.transcript)

\* every dialogue call of a run in progress was issued once: two calls per
\* synthetic-user turn appended, plus the synthetic call in flight
NoRetry ==
  \A b \in Batches :
    batch[b].pc \in RunPcs =>
      batch[b].run.calls =
        2 * UserTurns(batch[b]) + (IF batch[b].pc = "synthCall" THEN 1 ELSE 0)

\* after a batch that was not aborted every planned run is in the result
BatchGoesOn ==
  (result.returned /\ ~result.aborted) => Len(result.runs) = PlannedRuns

C3_JudgedIffCompleted ==
  /\ \A b \in Batches :
       batch[b].pc = "judgeCall" =>
         batch[b].run.status = "completed" /\ Len(batch[b].run.transcript) > 0
  /\ \A r \in Recorded : r.judged <=> r.status = "completed"
  /\ \A r \in Recorded :
       r.judged <=> (r.status = "completed" /\ Len(r.transcript) > 0)

\* a batch returned a judged completed run next to an unjudged failed one
C3_Witness ==
  /\ result.returned
  /\ \E r \in Range(result.runs) : r.status = "completed" /\ r.judged
  /\ \E r \in Range(result.runs) : r.status = "failed" /\ ~r.judged

\* C4: if abort() is called while run k+1 is in progress, the batch ends with
\* exactly the k runs recorded before: the interrupted run is absent from
\* the returned list and from the snapshot.
C4_InterruptedRunAbsent ==
  /\ result.returned => \A r \in Range(result.runs) : ~r.abortDuring
  /\ \A r \in Range(snapshot.runs) : ~r.abortDuring

\* the exchange, bucket or phase an invocation is working on
Unit(l) == <<l.phase, l.bucket, l.exchange, l.phaseExchanges>>

PassPcs == {"extractCall", "summarizeCall", "overlapCall"}

SameRun(b) ==
  /\ batch[b].pc \in RunPcs
  /\ batch'[b].pc \in RunPcs
  /\ Len(batch'[b].allRuns) = Len(batch[b].allRuns)

\* C5: once abort() was called during a run, the call in flight completes
\* and the run starts no further exchange, bucket, summarization or overlap
\* pass, or phase.
C5_AbortStopsAtNextBoundary ==
  [][\A b \in Batches :
       (batch[b].run.abortDuring /\ SameRun(b)) =>
         /\ Unit(batch'[b]) = Unit(batch[b])
         /\ batch'[b].pc \in PassPcs => batch'[b].pc = batch[b].pc]_vars

\* C6: a run interrupted by abort() holds no partial transcript or profile
\* and is marked 'failed', and the batch starts no further run.
C6_AbortDiscardsRun ==
  /\ \A r \in ReturnedRuns :
       r.abortDuring =>
         /\ r.status = "failed"
         /\ r.transcript = <<>>
         /\ ~r.whyProfile.present
         /\ ~r.ikigaiProfile.present
  /\ \A b \in Batches :
       (batch[b].abortCalled /\ batch[b].pc \in RunPcs) => batch[b].run.abortDuring

\* C7: a failed run preserves every transcript message accumulated up to
\* the failure, those of the failing phase included, and records the error
\* message.
C7_FailedRunKeepsTranscript ==
  \A r \in ReturnedRuns :
    r.status = "failed" => (Len(r.transcript) = r.pushed /\ r.error # "")

\* a synthetic-user call is issued by invocation b in this step
SynthIssued(b) ==
  /\ batch'[b].pc = "synthCall"
  /\ batch[b].pc # "synthCall" \/ batch'[b].run.calls # batch[b].run.calls

\* a run is begun by invocation b in this step
RunBegun(b) ==
  /\ batch'[b].pc \in RunPcs
  /\ \/ batch[b].pc \in {"refresh", "pauseWait"}
     \/ Len(batch'[b].allRuns) > Len(batch[b].allRuns)

C9_CommandsObserved ==
  [][/\ (aborts' > aborts /\ abortRequested
           /\ (abortController.present => abortController.aborted))
          => UNCHANGED <<abortRequested, abortController, isPaused, isRunning>>
     /\ \A b \in Batches :
          (/\ batch[b].abortCalled
           /\ batch[b].pc \in {"candCall", "judgeCall", "pauseWait"}
           /\ batch'[b] # batch[b]) => ~Active(b)'
     /\ \A b \in Batches : RunBegun(b) => ~isPaused']_vars

\* C10: at most one model-gateway call is in flight and at most one
\* (model, scenario) unit is being processed at any moment, for every
\* sequence of start, pause, resume and abort commands.
C10_OneCallInFlight ==
  /\ Cardinality({b \in Batches : batch[b].pc \in CallPcs}) <= 1
  /\ Cardinality({b \in Batches : Running(b)}) <= 1

\* the discovery transcripts simulateWhyFinder has completed: those awaiting
\* the extraction pass and those handed over to a run
DiscoveryDone ==
  {batch[b].transcript : b \in {c \in Batches : batch[c].pc = "extractCall"}}
  \cup {batch[b].run.transcript :
          b \in {c \in Batches : Len(batch[c].run.transcript) > 0}}
  \cup {r.transcript : r \in {q \in ReturnedRuns : Len(q.transcript) > 0}}

\* C11: a completed discovery transcript holds, after the greeting, exactly
\* 12 user/assistant pairs with exchange indices 1..12 in order, the user
\* message before the assistant's, tagged intro for 1-3, energy_map for 4-6,
\* stories for 7-9 and your_why for 10-12.
C11_TwelveOrderedPairs ==
  \A t \in DiscoveryDone :
    /\ Len(t) >= 1 + 2 * 12
    /\ t[1].role = "assistant" /\ t[1].ex = 0
    /\ \A i \in 1..Len(t) : t[i].ex \in 1..12 <=> i \in 2..25
    /\ \A k \in 1..12 :
         /\ t[2 * k].role = "user"
         /\ t[2 * k + 1].role = "assistant"
         /\ t[2 * k].ex = k
         /\ t[2 * k + 1].ex = k
         /\ \A m \in {t[2 * k], t[2 * k + 1]} :
              m.phase = CASE k \in 1..3 -> "intro"
                          [] k \in 4..6 -> "energy_map"
                          [] k \in 7..9 -> "stories"
                          [] k \in 10..12 -> "your_why"

\* a completed run was recorded, its discovery transcript followed by the
\* later phases' messages
C11_Witness ==
  \E r \in Recorded : r.status = "completed" /\ Len(r.transcript) > 25

\* C12: when the candidate answers a discovery exchange (exchange 5, say)
\* with empty text, the run continues: the empty content is appended, no
\* exception is raised, and the dialogue reaches exchange 12.
C12_EmptyReplyContinues ==
  \A r \in ReturnedRuns :
    r.emptyAt > 0 =>
      /\ r.error # "Candidate model returned empty response"
      /\ Len(r.transcript) >= 1 + 2 * WHY_FINDER_TOTAL_EXCHANGES
      /\ \E i \in 1..Len(r.transcript) :
           /\ r.transcript[i].role = "assistant"
           /\ r.transcript[i].ex = r.emptyAt

\* C13: the candidate message of exchange 12 begins with the fixed
\* completion marker and its final character is not a question mark,
\* whatever text the candidate model returns.
C13_FinalReplyMarked ==
  \A t \in DiscoveryDone :
    \A i \in 1..Len(t) :
      (t[i].role = "assistant" /\ t[i].ex = WHY_FINDER_TOTAL_EXCHANGES) =>
        (t[i].text.marker /\ ~t[i].text.question)

\* the runs that carry a bucket profile
Profiled ==
  {r \in ReturnedRuns \cup {batch[b].run : b \in Batches} :
     r.ikigaiProfile.present}

\* the synthetic-user answers given in the sub-dialogue of bucket i
Answers(t, i) ==
  Cardinality({j \in 1..Len(t) :
                 t[j].role = "user" /\ t[j].phase = PhaseName(i)})

\* bucket i had no sub-dialogue: it was filled from the discovery profile
AutoFilled(t, i) == \A j \in 1..Len(t) : t[j].phase # PhaseName(i)

\* C14 (as stated): every bucket that is not auto-filled holds at least
\* MIN_ANSWERS_PER_PHASE bullets once the profile is complete, unless its
\* sub-dialogue hit the exchange cap; the capped case still proceeds.
C14_BucketsHoldMinimum ==
  \A r \in Profiled : \A i \in 1..NumBuckets :
    ~AutoFilled(r.transcript, i) =>
      \/ r.ikigaiProfile.bullets[i] >= MIN_ANSWERS_PER_PHASE
      \/ Answers(r.transcript, i) >= MaxPhaseExchanges

\* C14 (amended): what is compared with the minimum is the answer counter,
\* not the bullet list: the sub-dialogue of a bucket that is not auto-filled
\* collects exactly MIN_ANSWERS_PER_PHASE synthetic-user answers, so the cap
\* never ends it; its bullets are whatever the summarization pass returns,
\* none if the pass fails, and the profile is built and the run proceeds
\* either way.  Only love and good-at are ever auto-filled, and then with
\* at least MIN_ANSWERS_PER_PHASE bullets.
C14_BucketsCollectMinimumAnswers ==
  \A r \in Profiled : \A i \in 1..NumBuckets :
    IF AutoFilled(r.transcript, i)
    THEN /\ i <= 2
         /\ r.ikigaiProfile.bullets[i] >= MIN_ANSWERS_PER_PHASE
    ELSE /\ Answers(r.transcript, i) = MIN_ANSWERS_PER_PHASE
         /\ Answers(r.transcript, i) < MaxPhaseExchanges
         /\ r.ikigaiProfile.bullets[i] \in {0, coach.summary}

\* a run completed although a bucket that was not auto-filled holds fewer
\* bullets than the minimum
C14_Witness ==
  \E r \in Recorded :
    /\ r.status = "completed"
    /\ r.ikigaiProfile.present
    /\ \E i \in 1..NumBuckets :
         /\ ~AutoFilled(r.transcript, i)
         /\ Answers(r.transcript, i) = MIN_ANSWERS_PER_PHASE
         /\ r.ikigaiProfile.bullets[i] < MIN_ANSWERS_PER_PHASE

\* the reports judgeRun has built
Reports == IF pure.fn = "judgeRun" /\ pure.report # NoPure THEN {pure.report} ELSE {}

\* C15: each of the seven metric scores of a report lies in [0, 10], for
\* every shape of the metric value in the judge's answer: an object with a
\* numeric score, an object with a string score, a bare number, or missing.
C15_ScoresWithinRange ==
  \A rep \in Reports : \A k \in DOMAIN rep.metrics :
    rep.metrics[k].score \in 0..100

Boards == IF pure.fn = "buildLeaderboard" /\ pure.built THEN {pure} ELSE {}

\* the index of the first run of a model in a list
FirstRun(runs, id) ==
  CHOOSE i \in 1..Len(runs) :
    /\ runs[i].model = id
    /\ \A j \in 1..(i - 1) : runs[j].model # id

\* C17: the ranks of the N entries buildLeaderboard returns are exactly 1..N
\* in list order, the entries are sorted by non-increasing overall score,
\* and entries with equal overall score keep the order in which their models
\* first appeared.
C17_RanksDenseAndStable ==
  \A p \in Boards :
    LET L == p.leaderboard
    IN /\ \A i \in 1..Len(L) : L[i].rank = i
       /\ \A i \in 1..Len(L) : \A j \in (i + 1)..Len(L) :
            /\ L[i].scoreSum * L[j].scored >= L[j].scoreSum * L[i].scored
            /\ L[i].scoreSum * L[j].scored = L[j].scoreSum * L[i].scored
                 => FirstRun(p.runs, L[i].modelId) < FirstRun(p.runs, L[j].modelId)

\* three models are ranked, two of them tie, and the first-ranked model is
\* not the one that appeared first
C17_Witness ==
  \E p \in Boards :
    LET L == p.leaderboard
    IN /\ Len(L) = 3
       /\ FirstRun(p.runs, L[1].modelId) > 1
       /\ \E i \in 1..2 :
            L[i].scoreSum * L[i + 1].scored = L[i + 1].scoreSum * L[i].scored

\* C18: when every run of a batch fails (the credential missing, say), the
\* batch yields a leaderboard of length 0 and the top-level error shown
\* cites the error message of the first run.
C18_AllFailedNoBoard ==
  (/\ result.returned
   /\ Len(result.runs) > 0
   /\ \A r \in Range(result.runs) : r.status = "failed")
  => /\ Len(result.leaderboard) = 0
     /\ result.error # ""
     /\ result.error = result.runs[1].error

\* a batch returned two failed runs, the second for want of the key
C18_Witness ==
  /\ result.returned
  /\ Len(result.runs) = PlannedRuns
  /\ \A r \in Range(result.runs) : r.status = "failed"
  /\ result.runs[PlannedRuns].error = "OpenAI API key not configured"
  /\ result.error = result.runs[1].error

\* invocation b records a run in this step
RunRecorded(b) == Len(batch'[b].allRuns) > Len(batch[b].allRuns)

\* invocation b of runEvaluation returns in this step
Returns(b) == Running(b) /\ ~Active(b)'

\* C19: after every run, judged or not, runEvaluation persists a snapshot
\* 'in_progress' holding exactly the runs recorded so far and the
\* leaderboard recomputed from them; once the batch finishes or is aborted,
\* the last snapshot written is 'completed' and holds the runs and the
\* leaderboard runEvaluation returns.
C19_SnapshotFollowsRuns ==
  [][\A b \in Batches :
       /\ (RunRecorded(b) /\ Active(b)') =>
            /\ snapshot'.status = "in_progress"
            /\ snapshot'.runs = batch'[b].allRuns
            /\ snapshot'.runs = Append(batch[b].allRuns, snapshot'.runs[Len(snapshot'.runs)])
            /\ snapshot'.leaderboard = buildLeaderboard(snapshot'.runs, CandidateModels)
       /\ Returns(b) =>
            /\ snapshot'.status = "completed"
            /\ result'.returned
            /\ snapshot'.runs = result'.runs
            /\ snapshot'.leaderboard = result'.leaderboard
            /\ Len(result'.runs) >= Len(batch[b].allRuns)]_vars

\* a batch has returned: the stored snapshot is complete and ranks the
\* second model before the first
C19_Witness ==
  /\ result.returned
  /\ snapshot.status = "completed"
  /\ Len(snapshot.runs) = PlannedRuns
  /\ snapshot.runs = result.runs
  /\ Len(snapshot.leaderboard) = 2
  /\ snapshot.leaderboard[1].modelId = 2

\* C20: getStoredResults returns the stored snapshot only while its age is
\* inside the 30-minute window; a snapshot older than the window is treated
\* as absent (null is returned) and removed from storage, so that later
\* reads find nothing.
C20_StaleSnapshotDropped ==
  [][(pure.fn = "getStoredResults" /\ now' = now) =>
       LET age == now - snapshot.timestamp
       IN /\ pure'.got.present =>
               /\ snapshot.status # "none"
               /\ age < 30 * 60 * 1000
               /\ pure'.got.runs = snapshot.runs
               /\ pure'.got.leaderboard = snapshot.leaderboard
               /\ pure'.got.status = snapshot.status
          /\ (snapshot.status # "none" /\ age < 30 * 60 * 1000) =>
               pure'.got.present /\ snapshot' = snapshot
          /\ (snapshot.status # "none" /\ age > 30 * 60 * 1000) =>
               ~pure'.got.present /\ snapshot' = NoSnapshot
          /\ snapshot.status = "none" =>
               ~pure'.got.present /\ snapshot' = NoSnapshot]_vars

\* an expired snapshot has been removed by a read that returned nothing
C20_Witness ==
  /\ pure.fn = "getStoredResults"
  /\ pure.reads > 0
  /\ ~pure.got.present
  /\ snapshot = NoSnapshot
  /\ now > RESULTS_TTL_MS
  /\ result = NoResult

\* the replies judged so far, each with the source that judged it
Judged == IF pure.fn = "judgeReply" /\ pure.report # NoPure THEN {pure} ELSE {}

\* no JSON.parse accepts the reply, before or after the replace chain of
\* either source
Unparseable(reply) ==
  reply.shape \in {"emptyText", "noObject", "unquotedKey"}

DistinctScores(rep) ==
  Cardinality({rep.metrics[k].score : k \in DOMAIN rep.metrics})

\* C22: when the seven parsed metric scores of a judge response have fewer
\* than 3 distinct values, the general comments of the returned report
\* contain the bias warning, and the metric scores and overallScore are what
\* the coercion and the weighted mean give without the check.
C22_FewDistinctScoresWarned ==
  \A j \in Judged :
    (j.report.parsed /\ DistinctScores(j.report) < 3) =>
      /\ \E i \in 1..Len(j.report.generalComments) :
           j.report.generalComments[i] = BiasWarning
      /\ j.report.overallScore = calculateOverallScore(j.report.metrics)
      /\ \A k \in DOMAIN j.report.metrics :
           j.report.metrics[k] =
             IF j.build = "part_006"
             THEN parseMetricScoreRobust(j.reply.parsed[k])
             ELSE parseMetricScore(j.reply.parsed[k])

\* the fields of a Run that the model keeps (judged and overall stand for
\* judgeReport)
RunFields(r) ==
  <<r.model, r.scenario, r.status, r.transcript, r.whyProfile,
    r.ikigaiProfile, r.decisionHelperOutput, r.judged, r.overall, r.error>>

\* the run invocation b is working on, as it is after the step: recorded in
\* the runs of the batch, in the returned runs, or still the current run
RunAfterStep(b) ==
  LET n == Len(batch[b].allRuns) + 1
  IN IF Len(batch'[b].allRuns) >= n THEN batch'[b].allRuns[n]
     ELSE IF ~Active(b)' /\ result'.returned /\ Len(result'.runs) >= n
     THEN result'.runs[n]
     ELSE batch'[b].run

\* C23: a Run is immutable once its status is terminal: after status has
\* become 'completed' or 'failed', no later step of the orchestrator, the
\* judging engine or the run coordinator changes a field of the run.
C23_TerminalRunImmutable ==
  [][\A b \in Batches :
       (Active(b) /\ batch[b].run.status \in {"completed", "failed"}) =>
         RunFields(RunAfterStep(b)) = RunFields(batch[b].run)]_vars

RECURSIVE SumUsage(_)
\* the tokens of a sequence of calls
SumUsage(calls) ==
  IF calls = <<>> THEN NoRoleUsage
  ELSE AddUsage(calls[1], SumUsage(Tail(calls)))

\* C24: when a run ends, completed or failed, the usage recorded in the
\* run's metadata equals the tokens accumulated by the model calls made
\* during that run, also for a run that failed after some calls succeeded.
C24_UsageFrozenAtRunEnd ==
  (pure.fn = "tokens" /\ pure.status \in {"completed", "failed"}) =>
    /\ pure.tokenUsage.input = SumUsage(pure.calls).input
    /\ pure.tokenUsage.output = SumUsage(pure.calls).output
    /\ pure.tokenUsage.total =
         SumUsage(pure.calls).input + SumUsage(pure.calls).output

\* C25: a missing credential is fatal to the whole batch before it starts:
\* when the key is missing as runEvaluation is called, runEvaluation starts
\* no run and makes no model call.
C25_MissingKeyStartsNoRun ==
  [][\A b \in Batches :
       (batch[b].pc = "refresh" /\ ~hasKey /\ batch'[b].pc # "refresh") =>
         /\ batch'[b].allRuns = <<>>
         /\ batch'[b].run.status = "none"
         /\ batch'[b].pc \notin CallPcs
         /\ result'.returned => result'.runs = <<>>]_vars

\* the user turns of the dialogue followed
SyntheticTurns ==
  IF pure.fn = "synth"
  THEN {i \in 1..Len(pure.conversationHistory) :
          pure.conversationHistory[i].role = "user"}
  ELSE {}

JudgedRuns(runs, id) == SelectSeq(runs, LAMBDA r : r.model = id /\ r.judged)

RECURSIVE MetricTotal(_, _)
\* the sum of one metric over a list of runs
MetricTotal(runs, k) ==
  IF runs = <<>> THEN 0
  ELSE runs[1].metrics[k].score + MetricTotal(Tail(runs), k)

RECURSIVE OverallTotal(_)
OverallTotal(runs) ==
  IF runs = <<>> THEN 0 ELSE runs[1].overall + OverallTotal(Tail(runs))

\* C27: in each leaderboard entry, every per-metric score is the arithmetic
\* mean of that metric over all judged runs of the model (a judged run
\* whose metric score is 0 counts in the mean), and overallScore is the mean
\* of overallScore over the same judged runs.
C27_EntryMeansOverJudgedRuns ==
  \A p \in Boards : \A i \in 1..Len(p.leaderboard) :
    LET e == p.leaderboard[i]
        judged == JudgedRuns(p.runs, e.modelId)
    IN /\ e.scoreSum * Len(judged) = OverallTotal(judged) * e.scored
       /\ e.scored > 0
       /\ \A k \in DOMAIN e.metrics :
            e.metrics[k].sum * Len(judged) = MetricTotal(judged, k) * e.metrics[k].n

\* the model identifiers with at least one judged run in a list
JudgedModels(runs) == {runs[i].model : i \in {j \in 1..Len(runs) : runs[j].judged}}

\* C28: buildLeaderboard returns exactly one entry for each model identifier
\* that has at least one judged run, whether the identifier comes from the
\* candidate list or only from the runs, and no entry for a model with no
\* judged run.
C28_OneEntryPerJudgedModel ==
  \A p \in Boards :
    LET L == p.leaderboard
    IN /\ {L[i].modelId : i \in 1..Len(L)} = JudgedModels(p.runs)
       /\ \A i \in 1..Len(L) : \A j \in 1..Len(L) :
            L[i].modelId = L[j].modelId => i = j

\* the candidate list holds model 2 only; models 1 and 3 have judged runs
\* and entries, model 2 has an unjudged run and no entry
C28_Witness ==
  \E p \in Boards :
    LET L == p.leaderboard
    IN /\ p.models = <<2>>
       /\ Len(L) = 2
       /\ {L[i].modelId : i \in 1..Len(L)} = {1, 3}
       /\ \E i \in 1..Len(p.runs) : p.runs[i].model = 2
       /\ Len(p.runs) = MaxBoardRuns

\* C29: when a metric field of the judge response is coerced, a string
\* score is parsed to its number, and every non-numeric score value (an
\* unparseable string, null, a boolean, an object, or a missing score)
\* yields the neutral midpoint 5.
C29_NonNumericScoreIsMidpoint ==
  \A j \in Judged : j.report.parsed =>
    \A k \in DOMAIN j.report.metrics :
      LET data == j.reply.parsed[k]
          score == j.report.metrics[k].score
      IN /\ (data.kind = "objectString" /\ ~parseFloat(data.str).nan) =>
              score = Clamp(parseFloat(data.str).v)
         /\ \/ data.kind = "objectString" /\ parseFloat(data.str).nan
            \/ data.kind \in {"objectNull", "objectBoolean", "objectObject",
                              "objectNoScore"}
            => score = 50

\* the number of distinct items the discovery profile of a run supplies
\* for bucket i
DistinctItems(r, i) ==
  IF ~r.whyProfile.present THEN 0
  ELSE IF i = 1 THEN r.whyProfile.loveDistinct
  ELSE IF i = 2 THEN r.whyProfile.goodAtDistinct
  ELSE 0

\* C30: a love or good-at bucket is auto-filled, its sub-dialogue skipped
\* (no transcript message is appended for that bucket), exactly when the
\* DiscoveryProfile supplies at least MIN_ANSWERS_PER_PHASE distinct items
\* for it; the world-needs and paid-for buckets are never auto-filled.
C30_AutoFillIffDistinctItems ==
  \A r \in Profiled : \A i \in 1..NumBuckets :
    IF i <= 2
    THEN AutoFilled(r.transcript, i)
           <=> DistinctItems(r, i) >= MIN_ANSWERS_PER_PHASE
    ELSE ~AutoFilled(r.transcript, i)

\* C31: in every run that finishes the bucket-build phase a summarization
\* pass is run for each of the four buckets, in the order love, good-at,
\* world-needs, paid-for, also for an auto-filled bucket, and the overlap
\* computation pass runs exactly once, after all four buckets.
C31_PassPerBucketThenOverlaps ==
  \A r \in Profiled :
    r.passes = [i \in 1..NumBuckets + 1 |->
                  IF i <= NumBuckets THEN PhaseName(i) ELSE "overlaps"]

\* invocation b is inside the while loop of bucket i
InSubDialogue(b, i) ==
  /\ batch[b].phase = "ikigai"
  /\ batch[b].bucket = i
  /\ batch[b].pc \in {"synthCall", "candCall"}

\* the number of awaited calls the while loop of bucket i can still make
Remaining(l, i) ==
  2 * (MIN_ANSWERS_PER_PHASE - l.counts[i]) + (IF l.pc = "candCall" THEN 1 ELSE 0)

\* C32: the sub-dialogue of every bucket terminates: the answer counter
\* increases by one each turn, and the loop ends when the counter reaches
\* MIN_ANSWERS_PER_PHASE or after 10 exchange pairs, whichever comes first,
\* whatever the two models answer (every call that settles leaves the loop
\* or lowers the number of calls the loop can still make, which is never
\* negative); the loop is left for the summarization pass, so hitting the
\* cap does not fail the run.
C32_SubDialogueTerminates ==
  /\ [](\A b \in Batches : \A i \in 1..NumBuckets :
         /\ InSubDialogue(b, i) =>
              /\ batch[b].phaseExchanges <= MaxPhaseExchanges
              /\ batch[b].counts[i] <= MIN_ANSWERS_PER_PHASE
              /\ batch[b].pc = "synthCall" =>
                    batch[b].counts[i] < MIN_ANSWERS_PER_PHASE
         /\ batch[b].bucket = i /\ batch[b].pc = "summarizeCall" =>
              /\ batch[b].run.status = "running"
              /\ \/ batch[b].counts[i] = MIN_ANSWERS_PER_PHASE
                 \/ batch[b].phaseExchanges = MaxPhaseExchanges)
  /\ [][\A b \in Batches : \A i \in 1..NumBuckets :
          /\ InSubDialogue(b, i) /\ batch[b].pc = "synthCall"
          /\ InSubDialogue(b, i)' /\ batch'[b].pc = "candCall"
          => batch'[b].counts[i] = batch[b].counts[i] + 1]_vars
  /\ [][\A b \in Batches : \A i \in 1..NumBuckets :
          InSubDialogue(b, i) /\ batch'[b] # batch[b]
          => \/ ~InSubDialogue(b, i)'
             \/ /\ Remaining(batch'[b], i) < Remaining(batch[b], i)
                /\ Remaining(batch'[b], i) >= 0]_vars

\* the sub-dialogue of a bucket has ended and its summarization pass is
\* awaited
C32_Witness ==
  \E b \in Batches :
    /\ batch[b].pc = "summarizeCall"
    /\ batch[b].bucket = NumBuckets
    /\ batch[b].phaseExchanges = MIN_ANSWERS_PER_PHASE
    /\ batch[b].counts[NumBuckets] = MIN_ANSWERS_PER_PHASE

\* the pass invocation b awaits settles in this step
PassSettles(b, pc) ==
  /\ batch[b].pc = pc
  /\ \/ batch'[b].pc # pc
     \/ batch'[b].bucket # batch[b].bucket
     \/ batch'[b].run.model # batch[b].run.model

\* whenever a pass fails, by a failing call or by output that does not
\* parse, the run goes on with empty data: the discovery profile given, no
\* bullets for the bucket, no overlaps; the run can only fail in the same
\* step by the dialogue call that follows
AbsorbedWith(emptyProfile) ==
  \A b \in Batches :
    LET r == RunAfterStep(b)
        failing == faults' # faults
    IN /\ PassSettles(b, "extractCall") /\ (failing \/ ~coach.extract.present)
            => /\ r.whyProfile = emptyProfile
               /\ r.status = "running" =>
                    /\ batch'[b].phase = "ikigai"
                    /\ batch'[b].bucket = 1
                    /\ batch'[b].counts = <<0, 0, 0, 0>>
               /\ r.status # "running" => r.status = "failed" /\ r.dialogFail
       /\ PassSettles(b, "summarizeCall") /\ (failing \/ coach.summary = 0)
            => /\ r.status = "running" =>
                    /\ batch'[b].storage[batch[b].bucket] = 0
                    /\ batch[b].bucket = NumBuckets =>
                          /\ batch'[b].ikigai.present
                          /\ batch'[b].ikigai.bullets[NumBuckets] = 0
               /\ r.status # "running" => r.status = "failed" /\ r.dialogFail
       /\ PassSettles(b, "overlapCall") /\ (failing \/ ~coach.overlap)
            => /\ r.ikigaiProfile.present
               /\ ~r.ikigaiProfile.overlaps
               /\ r.status = "running" => batch'[b].phase = "decision_helper"
               /\ r.status # "running" => r.status = "failed" /\ r.dialogFail

\* C33 (as stated): a failure of the discovery extraction pass (output that
\* does not parse, or a failing model call) yields an empty DiscoveryProfile,
\* a profile object whose fields are empty, not a run failure: the run goes
\* on to the bucket-build phase; a failed summarization or overlap pass
\* leaves empty buckets and the run is not marked failed for it.
C33_FailedExtractionGivesEmptyProfile ==
  [][AbsorbedWith([NullProfile EXCEPT !.present = TRUE])]_vars

\* C33 (amended): a failure of the discovery extraction pass yields no
\* DiscoveryProfile at all (the run's profile is null), not a run failure:
\* the run goes on to the bucket-build phase with no bucket auto-filled; a
\* failed summarization pass leaves its bucket without bullets, a failed
\* overlap pass leaves the overlap buckets empty, and the run is not marked
\* failed for any of them.
C33_FailedExtractionGivesNoProfile ==
  [][AbsorbedWith(NullProfile)]_vars

\* a run whose extraction call failed was completed without a profile
C33_Witness ==
  \E r \in Recorded :
    /\ r.passFail
    /\ r.status = "completed"
    /\ ~r.whyProfile.present
    /\ r.passes[1] = PhaseName(1)

\* C34: during a run the progress callback is invoked at least once at
\* every phase transition (discovery, bucket build, decision, judging) and
\* at least once for every exchange of every phase, the exchanges of the
\* bucket sub-dialogues and of the decision phase included.
C34_ProgressAtEveryExchange ==
  [][\A b \in Batches :
       \/ /\ batch'[b].phase # batch[b].phase
          /\ batch'[b].phase \in {"why_finder", "ikigai", "decision_helper", "judging"}
       \/ /\ batch'[b].pc = "synthCall"
          /\ batch[b].pc # "synthCall"
       => batch'[b].events > batch[b].events]_vars

\* C35: after abort() is called on a batch, that batch starts no further
\* run, also when runEvaluation is called again on the same service before
\* the aborted batch has returned: the new call's reset of the abort and
\* pause flags does not let the aborted batch resume its remaining runs.
C35_AbortedBatchStartsNoRun ==
  [][\A b \in Batches : batch[b].abortCalled => ~RunBegun(b)]_vars

\* invocation b leaves the wait loop of the pause test in this step
LeavesWait(b) == batch[b].pc = "pauseWait" /\ batch'[b].pc # "pauseWait"

\* C36: a paused batch never hangs on a control command: while the pause
\* flag is set no new run is started; if abort() is called while paused,
\* runEvaluation leaves the wait loop, starts no further run, writes the
\* final snapshot and returns the runs recorded so far; if resume() is
\* called, the wait loop is left and the next planned run starts.
C36_PausedBatchObeysCommands ==
  [][\A b \in Batches :
       /\ RunBegun(b) => ~isPaused'
       /\ LeavesWait(b) /\ batch[b].abortCalled
            => /\ ~Active(b)'
               /\ result'.returned
               /\ result'.runs = batch[b].allRuns
               /\ snapshot'.status = "completed"
               /\ snapshot'.runs = batch[b].allRuns
       /\ LeavesWait(b) /\ ~batch[b].abortCalled
            => \/ RunBegun(b)
               \/ Len(batch'[b].allRuns) > Len(batch[b].allRuns)
               \/ ~Active(b)' /\ Len(result'.runs) > Len(batch[b].allRuns)]_vars

\* the sub-phases of the discovery phase
DiscoveryPhases == {"intro", "energy_map", "stories", "your_why"}

\* C37: in the transcript text sent to the judge, the exchange number
\* computed for each discovery-phase message equals the exchangeNumber the
\* orchestrator recorded for that message, for user and for assistant turns
\* alike (the forced statement of exchange 12 is labelled exchange 12).
C37_LabelIsExchangeNumber ==
  \A b \in Batches :
    batch[b].pc = "judgeCall" =>
      LET transcript == batch[b].run.transcript
      IN \A i \in 1..Len(transcript) :
           transcript[i].phase \in DiscoveryPhases
             => ExchangeLabel(transcript, i) = transcript[i].ex

\* the sum of one counter over the candidate and synthetic entries of the
\* three dialogue phases of a run's phaseTokenUsage
PhaseSum(usage, field) ==
  SumSeq([i \in 1..Len(usage.phases) |->
            usage.phases[i].candidate[field] + usage.phases[i].synthetic[field]])

\* C38: for every judged run, the total input and output token counts in
\* run.phaseTokenUsage.total equal the sum of the per-phase candidate and
\* synthetic counters of the three dialogue phases plus the judge counters,
\* each model call's tokens being counted exactly once, and they include
\* only calls made for that run.
C38_TotalIsSumOfPhases ==
  (pure.fn = "tokens" /\ pure.judged) =>
    LET usage == pure.phaseTokenUsage
        calls == AddUsage(SumUsage(pure.calls), pure.judgeUsage)
    IN /\ usage.total.input = PhaseSum(usage, "input") + usage.judge.input
       /\ usage.total.output = PhaseSum(usage, "output") + usage.judge.output
       /\ usage.total.input = calls.input
       /\ usage.total.output = calls.output

\* C39: in every progress event of a batch completedRuns is non-decreasing
\* and at most totalRuns, and when a batch ends without abort the final
\* 'completed' event has completedRuns equal to totalRuns, for every
\* scenariosPerModel and every number of available scenarios.
C39_CompletedRunsReachTotal ==
  pure.fn = "progress" =>
    LET events == pure.events
    IN /\ \A i \in 1..Len(events) : events[i].completedRuns <= events[i].totalRuns
       /\ \A i, j \in 1..Len(events) :
            i < j => events[i].completedRuns <= events[j].completedRuns
       /\ pure.status = "completed" /\ ~pure.aborted
            => /\ events[Len(events)].status = "completed"
               /\ events[Len(events)].completedRuns = events[Len(events)].totalRuns

\* the reports judgeRun returns when the judge's call fails or its output
\* cannot be parsed
FailedReports ==
  {JudgeReport(build, Reply(shape, JudgeAnswer(1), NoComments)) :
     build \in Builds,
     shape \in {"requestFails", "emptyText", "noObject", "unquotedKey"}}

\* run r carries such a report
FailedJudging(r) ==
  /\ r.judged
  /\ \E report \in FailedReports :
       r.overall = report.overallScore /\ r.metrics = report.metrics

\* C40: if the judge's model call fails or its output cannot be parsed, the
\* run still receives a judge report with overallScore 0, and
\* buildLeaderboard counts that run as a judged run: it counts in the
\* model's mean overall score (which it lowers), and a model whose only
\* judged runs are such reports still gets an entry, with score 0.
C40_FailedJudgingCounts ==
  /\ \A report \in FailedReports : report.overallScore = 0 /\ ~report.raised
  /\ \A p \in Boards : \A id \in 1..NumBoardModels :
       LET judged == JudgedRuns(p.runs, id)
           failed == SelectSeq(judged, FailedJudging)
           others == SelectSeq(judged, LAMBDA r : ~FailedJudging(r))
       IN Len(failed) > 0 =>
            \E i \in 1..Len(p.leaderboard) :
              LET e == p.leaderboard[i]
              IN /\ e.modelId = id
                 /\ e.scored = Len(judged)
                 /\ e.scoreSum = OverallTotal(others)
                 /\ Len(others) = 0 => e.scoreSum = 0

\* a model with a judged run of score 10 and a run whose judging failed
\* has its mean halved; another model, whose only run is one whose judging
\* failed, has an entry with score 0
C40_Witness ==
  \E p \in Boards :
    /\ Len(p.runs) = 3
    /\ Len(p.leaderboard) = 2
    /\ \E i, j \in 1..3 :
         /\ p.runs[i].model = 1 /\ FailedJudging(p.runs[i])
         /\ p.runs[j].model = 1 /\ p.runs[j].overall = 10000
    /\ \E i \in 1..3 : p.runs[i].model = 2 /\ FailedJudging(p.runs[i])
    /\ p.leaderboard[1].modelId = 1
    /\ p.leaderboard[1].scoreSum = 10000
    /\ p.leaderboard[1].scored = 2
    /\ p.leaderboard[2].modelId = 2
    /\ p.leaderboard[2].scoreSum = 0

TypeOK ==
  /\ isRunning \in BOOLEAN
  /\ isPaused \in BOOLEAN
  /\ abortRequested \in BOOLEAN
  /\ \A b \in Batches : batch[b].pc \in {"idle", "refresh", "pauseWait", "judgeCall"} \cup RunPcs
====
